---- MODULE Spec2Model ----
(***************************************************************************)
(* QuickCafe recommendation pipeline: the review-analysis service, the     *)
(* location cache and the request handler, modelled from the TypeScript    *)
(* sources.  Confidence scores are integers in thousandths (0.4 = 400),    *)
(* times are integers in milliseconds.                                     *)
(***************************************************************************)
EXTENDS Integers, Sequences, FiniteSets, TLC

VARIABLES
    now,            \* Date.now(), in milliseconds
    ticks,          \* number of clock steps taken (bounded by MaxTicks)
    memCache,       \* AnalysisService.cache : cafe id -> CacheEntry or NoEntry
    cafe_vibes,     \* table cafe_vibes : cafe id -> row or NoRow
    cafe_amenities, \* table cafe_amenities : cafe id -> row or NoRow
    aPc,            \* position of the running analyzeReviews call
    aCafe,          \* the cafe of the running call
    aReviews,       \* the reviews of the cafe of the running call
    attempt,        \* loop variable of analyzeReviews
    pending,        \* the validated analysis being saved
    aResult,        \* value returned by the last analyzeReviews call
    aRaised,        \* TRUE when the last call ended by throwing to its caller
    fetchLog,       \* answers of the scoring provider in the running call
    vibesBefore,    \* cafe_vibes at the start of the running call
    amenBefore,     \* cafe_amenities at the start of the running call
    memBefore,      \* memCache after the cache lookup of the running call
    saveLog,        \* outcomes of the two upserts of the running call
    location_cache, \* table location_cache : search_location -> row
    cPc,            \* position of the running CacheService call
    cOp,            \* the running call: operation and arguments
    cSeen,          \* what the select of getLocationCache saw
    cDel,           \* outcome of the delete of invalidateLocationCache
    cResult,        \* value returned by the CacheService call
    cRaised,        \* TRUE when the call ended by throwing
    cacheBefore,    \* location_cache at the start of the running call
    lastPut,        \* the last successful cacheLocationResults, while nothing
                    \* else has written or deleted since
    everPut,        \* argument triples cacheLocationResults has stored
    evicted,        \* keys deleted by invalidateLocationCache and not written since
    cafes,          \* table cafes : rows (id, google_place_id)
    nextUuid,       \* number of ids crypto.randomUUID has handed out
    hPc,            \* position of handleRequest
    hReq,           \* the request: geocoded coordinates and priceRange
    hCachedIds,     \* handleRequest: cachedCafeIds
    hNearby,        \* handleRequest: nearbyCafes
    hCafes,         \* handleRequest: cafes
    hResponse,      \* status of the response, 0 while there is none
    hRespondedAt,   \* the step that produced the response
    hUpsert,        \* outcome of the upsert into cafes of this request
    hReadBack,      \* ids read back from cafes in this request
    hSearched,      \* TRUE once searchNearbyCafes has returned in this request
    hCacheFailed,   \* cache steps of this request that failed
    hCacheWrites,   \* location_cache upserts issued by this request
    hCalls,         \* calls to collaborators made by this request, in order
    hIdx,           \* handleRequest step 5: position of the loop over cafes
    hToAnalyze,     \* handleRequest: cafesToAnalyze (ids)
    hAnalyzed,      \* handleRequest: analyzedCafes
    hBatch,         \* handleRequest: i, the start of the current batch
    hInFlight,      \* analyzeReviews calls of the current batch not yet settled
    hOutcomes,      \* how the analyzeReviews calls of this request ended
    hRanked,        \* rankedResults.recommendations, NoRanking before step 6
    pPc,            \* position of POST: idle, racing, responded
    pElapsed,       \* seconds since POST set its timer
    pTimer,         \* the 30 s timer of POST: unset, armed, fired
    pHandler,       \* the promise of handleRequest: none, pending, resolved
    pResult,        \* status of the Response handleRequest resolved with, 0 before
    pResponse,      \* status of the Response POST returned, 0 before
    pAnsweredBy,    \* what settled the race: none, handler, timer
    rPc,            \* position of the running hasRecentAnalysis call
    rCafe,          \* its argument cafeId
    rQueries,       \* outcomes of its two selects
    rResult,        \* the value it returned
    rRaised,        \* TRUE when it ended by throwing
    gPc,            \* position of a direct getRecommendations call: idle, query, done
    gTable,         \* what find_cafes_v2 selects for the search: rows by distance
    gRequest,       \* its argument request
    gLimit,         \* its argument limit
    gResult,        \* the RecommendationResults it resolved with
    gRaised,        \* the error it threw, "none" when it resolved
    prevRead,       \* the getLocationCache call that returned last, if no call followed
    qPc,            \* position of a retryableRequest call: idle, fetch, delay, done
    qUrl,           \* its argument url
    qAttempt,       \* its loop variable attempt
    lastError,      \* its local lastError
    qLog,           \* the outcomes of its fetches, in order
    qResult,        \* the response it returned
    qRaised         \* the error it threw, "none" when it returned or is running

avars == <<now, ticks, memCache, cafe_vibes, cafe_amenities, aPc, aCafe, aReviews, attempt,
           pending, aResult, aRaised, fetchLog, vibesBefore, amenBefore,
           memBefore, saveLog>>

cvars == <<location_cache, cPc, cOp, cSeen, cDel, cResult, cRaised, cacheBefore,
           lastPut, everPut, evicted>>

hvars == <<cafes, nextUuid, hPc, hReq, hCachedIds, hNearby, hCafes, hResponse,
           hRespondedAt, hUpsert, hReadBack, hSearched, hCacheFailed, hCacheWrites,
           hCalls>>

evars == <<hIdx, hToAnalyze, hAnalyzed, hBatch, hInFlight, hOutcomes, hRanked>>

dvars == <<pPc, pElapsed, pTimer, pHandler, pResult, pResponse, pAnsweredBy>>

rvars == <<rPc, rCafe, rQueries, rResult, rRaised>>

gvars == <<gPc, gTable, gRequest, gLimit, gResult, gRaised>>

qvars == <<qPc, qUrl, qAttempt, lastError, qLog, qResult, qRaised>>

xvars == <<evars, dvars, rvars, gvars, prevRead, qvars>>

vars == <<avars, cvars, hvars, xvars>>

(***************************************************************************)
(* Bounds of the model                                                     *)
(***************************************************************************)
MaxTicks == 1
MaxUuids == 3

(***************************************************************************)
(* Program constants                                                       *)
(***************************************************************************)
RETRY_ATTEMPTS == 3
CACHE_DURATION == 24 * 60 * 60 * 1000
MIN_REVIEW_TEXT == 50
VIBE_THRESHOLD == 400
AMENITY_THRESHOLD == 500
STATUS_RATE_LIMIT == 429

VibeCategories ==
    {"cozy", "modern", "quiet", "lively", "artistic", "traditional", "industrial"}
AmenityTypes ==
    {"wifi", "outdoor_seating", "power_outlets", "pet_friendly", "parking",
     "workspace_friendly", "food_menu"}

\* One cafe: the calls of analyzeReviews share nothing across cafes but the Map.
Cafes == {"c1"}

(***************************************************************************)
(* Values                                                                  *)
(***************************************************************************)
Null == [null |-> TRUE]
NoEntry == [entry |-> FALSE]
NoRow == [row |-> FALSE]

\* A JSON value of the scoring response: a number (in thousandths) or not.
Num(n) == [t |-> "number", v |-> n]
NotANumber == [t |-> "string", v |-> 0]

(***************************************************************************)
(* Cafes handed to analyzeReviews: what the call reads of a cafe is        *)
(* whether it has reviews and the total length of their text.              *)
(***************************************************************************)
\* The value of cafe.reviews when no call is running.
NoReviews == [count |-> 0, totalText |-> 0]
ReviewShapes ==
    { [count |-> 0, totalText |-> 0],
      [count |-> 1, totalText |-> MIN_REVIEW_TEXT - 1],
      [count |-> 2, totalText |-> MIN_REVIEW_TEXT],
      [count |-> 2, totalText |-> 68] }

(***************************************************************************)
(* Answers of the scoring provider                                         *)
(***************************************************************************)
VibeMap(a, b) ==
    [c \in VibeCategories |->
        IF c = "cozy" THEN Num(a) ELSE IF c = "modern" THEN Num(b) ELSE Num(300)]
AmenityMap(a, b) ==
    [c \in AmenityTypes |->
        IF c = "wifi" THEN Num(a) ELSE IF c = "parking" THEN Num(b) ELSE Num(500)]

Analysis(v, a) == [vibe_scores |-> v, amenity_scores |-> a]

\* cozy 0.5 / modern 0.3 with wifi 0.6 / parking 0.3; nothing above a threshold;
\* other categories above the thresholds; vibes only.
BaseAnalysis == Analysis(VibeMap(500, 300), AmenityMap(600, 300))

ValidAnalyses ==
    { BaseAnalysis,
      Analysis(VibeMap(400, 300), AmenityMap(500, 300)),
      Analysis(VibeMap(400, 600), AmenityMap(500, 700)),
      Analysis(VibeMap(500, 600), AmenityMap(500, 300)) }

Without(m, k) == [x \in DOMAIN m \ {k} |-> m[x]]
With(m, k, val) == [x \in DOMAIN m \cup {k} |-> IF x = k THEN val ELSE m[x]]

\* Parsed objects that isValidAnalysis must reject.
InvalidObjects ==
    { [vibe_scores |-> BaseAnalysis.vibe_scores],
      [amenity_scores |-> BaseAnalysis.amenity_scores],
      Analysis(Without(BaseAnalysis.vibe_scores, "quiet"), BaseAnalysis.amenity_scores),
      Analysis(BaseAnalysis.vibe_scores, Without(BaseAnalysis.amenity_scores, "parking")),
      Analysis(With(BaseAnalysis.vibe_scores, "cozy", Num(1001)), BaseAnalysis.amenity_scores),
      Analysis(BaseAnalysis.vibe_scores, With(BaseAnalysis.amenity_scores, "wifi", Num(1500))),
      Analysis(With(BaseAnalysis.vibe_scores, "modern", Num(-100)), BaseAnalysis.amenity_scores),
      Analysis(BaseAnalysis.vibe_scores, With(BaseAnalysis.amenity_scores, "wifi", NotANumber)),
      Analysis(With(BaseAnalysis.vibe_scores, "rustic", Num(2000)), BaseAnalysis.amenity_scores) }

\* A fetch either rejects (network error) or resolves with a status and a body.
\* body.content is the text of choices[0].message.content: absent, text that
\* JSON.parse rejects, or the text of an object.
NetworkError == [kind |-> "network"]
HttpError(s) == [kind |-> "http", status |-> s]
OkNoContent == [kind |-> "ok", content |-> "absent"]
OkBadJson == [kind |-> "ok", content |-> "unparsable"]
OkObject(o) == [kind |-> "ok", content |-> "object", obj |-> o]

ProviderAnswers ==
    {NetworkError, HttpError(STATUS_RATE_LIMIT), HttpError(500),
     OkNoContent, OkBadJson}
    \cup {OkObject(o) : o \in ValidAnalyses \cup InvalidObjects}

(***************************************************************************)
(* AnalysisService                                                         *)
(***************************************************************************)
ValidScore(s) == s.t = "number" /\ s.v >= 0 /\ s.v <= 1000

IsValidAnalysis_KeysOnly(analysis) ==
    /\ "vibe_scores" \in DOMAIN analysis
    /\ "amenity_scores" \in DOMAIN analysis
IsValidAnalysis(analysis) ==
    /\ "vibe_scores" \in DOMAIN analysis
    /\ "amenity_scores" \in DOMAIN analysis
    /\ \A cat \in VibeCategories : cat \in DOMAIN analysis.vibe_scores
    /\ \A amenity \in AmenityTypes : amenity \in DOMAIN analysis.amenity_scores
    /\ \A k \in DOMAIN analysis.vibe_scores : ValidScore(analysis.vibe_scores[k])
    /\ \A k \in DOMAIN analysis.amenity_scores : ValidScore(analysis.amenity_scores[k])

\* rawContent.includes('"vibe_scores"') && rawContent.includes('"amenity_scores"')
PreValidate(obj) == "vibe_scores" \in DOMAIN obj /\ "amenity_scores" \in DOMAIN obj

AboveVibeThreshold_Inclusive(score) == score.v >= VIBE_THRESHOLD
AboveVibeThreshold(score) == score.v > VIBE_THRESHOLD
AboveAmenityThreshold(score) == score.v > AMENITY_THRESHOLD

HighConfidenceVibes(analysis) ==
    [k \in {x \in DOMAIN analysis.vibe_scores : AboveVibeThreshold(analysis.vibe_scores[x])}
        |-> analysis.vibe_scores[k]]
HighConfidenceAmenities(analysis) ==
    [k \in {x \in DOMAIN analysis.amenity_scores :
                AboveAmenityThreshold(analysis.amenity_scores[x])}
        |-> analysis.amenity_scores[k]]

\* The row an upsert writes: the categories, their scores, the time of the write.
ScoreRow(high, t) ==
    [row |-> TRUE, scores |-> [k \in DOMAIN high |-> high[k].v], last_analyzed |-> t]

\* getCachedAnalysis: the cached analysis, or Null when absent or expired.
Expired(entry, t) == t - entry.timestamp > CACHE_DURATION
GetCachedAnalysis(cache, cafeId, t) ==
    IF cache[cafeId] = NoEntry \/ Expired(cache[cafeId], t)
    THEN Null ELSE cache[cafeId].analysis
\* getCachedAnalysis deletes an expired entry.
CacheAfterGet(cache, cafeId, t) ==
    IF cache[cafeId] # NoEntry /\ Expired(cache[cafeId], t)
    THEN [cache EXCEPT ![cafeId] = NoEntry] ELSE cache

\* cacheAnalysis
CacheAnalysis(cache, cafeId, analysis, t) ==
    [cache EXCEPT ![cafeId] = [entry |-> TRUE, analysis |-> analysis, timestamp |-> t]]

\* What one pass of the retry loop does with the provider's answer:
\*   "backoff": wait and go to the next attempt;  "catch": the outer catch;
\*   "null": return null;  "save": the answer is a valid analysis.
RetryableStatus(status, att) == status = STATUS_RATE_LIMIT /\ att < RETRY_ATTEMPTS
OnAnswer_NoRetry(ans, att) ==
    CASE ans.kind = "network" -> "catch"
      [] ans.kind = "http" -> "null"
      [] ans.content = "absent" -> "catch"
      [] ans.content = "unparsable" -> "null"
      [] OTHER -> IF PreValidate(ans.obj) /\ IsValidAnalysis(ans.obj) THEN "save" ELSE "null"
OnAnswer(ans, att) ==
    CASE ans.kind = "network" -> "catch"
      [] ans.kind = "http" -> IF RetryableStatus(ans.status, att) THEN "backoff" ELSE "catch"
      [] ans.content = "absent" -> "catch"
      [] ans.content = "unparsable" -> "null"
      [] OTHER -> IF PreValidate(ans.obj) /\ IsValidAnalysis(ans.obj) THEN "save" ELSE "null"
OuterCatch_Rethrow(att) == IF att = RETRY_ATTEMPTS THEN "throw" ELSE "backoff"
\* The outer catch: return null on the last attempt, otherwise wait and loop.
OuterCatch(att) == IF att = RETRY_ATTEMPTS THEN "null" ELSE "backoff"
AttemptOutcome(ans, att) ==
    IF OnAnswer(ans, att) = "catch" THEN OuterCatch(att) ELSE OnAnswer(ans, att)

(***************************************************************************)
(* analyzeReviews, one await per action                                    *)
(***************************************************************************)
AReturn(value) ==
    /\ aPc' = "done"
    /\ aResult' = value
    /\ aRaised' = FALSE
\* An exception leaves analyzeReviews.
AThrow ==
    /\ aPc' = "done"
    /\ aResult' = Null
    /\ aRaised' = TRUE

\* Mutation of AnalyzeStart: the total length of the review text is not checked.
AnalyzeStart_NoLengthCheck(cafeId, reviews) ==
    /\ aPc = "idle"
    /\ aCafe' = cafeId
    /\ aReviews' = reviews
    /\ fetchLog' = <<>>
    /\ saveLog' = <<>>
    /\ vibesBefore' = cafe_vibes
    /\ amenBefore' = cafe_amenities
    /\ pending' = Null
    /\ attempt' = 1
    /\ IF reviews.count = 0
       THEN /\ AReturn(Null)
            /\ memCache' = memCache
       ELSE /\ memCache' = CacheAfterGet(memCache, cafeId, now)
            /\ IF GetCachedAnalysis(memCache, cafeId, now) # Null
               THEN AReturn(GetCachedAnalysis(memCache, cafeId, now))
               ELSE /\ aPc' = "fetch"
                    /\ UNCHANGED <<aResult, aRaised>>
    /\ memBefore' = memCache'
    /\ UNCHANGED <<now, ticks, cafe_vibes, cafe_amenities>>
\* Entry of analyzeReviews up to the first fetch.
AnalyzeStart(cafeId, reviews) ==
    /\ aPc = "idle"
    /\ aCafe' = cafeId
    /\ aReviews' = reviews
    /\ fetchLog' = <<>>
    /\ saveLog' = <<>>
    /\ vibesBefore' = cafe_vibes
    /\ amenBefore' = cafe_amenities
    /\ pending' = Null
    /\ attempt' = 1
    /\ IF reviews.count = 0
       THEN /\ AReturn(Null)
            /\ memCache' = memCache
       ELSE /\ memCache' = CacheAfterGet(memCache, cafeId, now)
            /\ IF GetCachedAnalysis(memCache, cafeId, now) # Null
               THEN AReturn(GetCachedAnalysis(memCache, cafeId, now))
               ELSE IF reviews.totalText < MIN_REVIEW_TEXT
               THEN AReturn(Null)
               ELSE /\ aPc' = "fetch"
                    /\ UNCHANGED <<aResult, aRaised>>
    /\ memBefore' = memCache'
    /\ UNCHANGED <<now, ticks, cafe_vibes, cafe_amenities>>

\* The provider answers the fetch of the current attempt.
ProviderAnswer(ans) ==
    /\ aPc = "fetch"
    /\ fetchLog' = Append(fetchLog, ans)
    /\ CASE AttemptOutcome(ans, attempt) = "backoff" ->
               /\ aPc' = "delay"
               /\ UNCHANGED <<aResult, aRaised, pending>>
         [] AttemptOutcome(ans, attempt) = "save" ->
               /\ aPc' = "save_vibes"
               /\ pending' = ans.obj
               /\ UNCHANGED <<aResult, aRaised>>
         [] AttemptOutcome(ans, attempt) = "null" ->
               /\ AReturn(Null)
               /\ UNCHANGED pending
         [] OTHER ->
               /\ AThrow
               /\ UNCHANGED pending
    /\ UNCHANGED <<now, ticks, memCache, cafe_vibes, cafe_amenities, aCafe, aReviews, attempt,
                   vibesBefore, amenBefore, memBefore, saveLog>>

\* setTimeout(RETRY_DELAY * attempt) has fired: next pass of the for loop.
RetryDelayElapsed ==
    /\ aPc = "delay"
    /\ attempt' = attempt + 1
    /\ IF attempt + 1 <= RETRY_ATTEMPTS
       THEN aPc' = "fetch" /\ UNCHANGED <<aResult, aRaised>>
       ELSE AReturn(Null)
    /\ UNCHANGED <<now, ticks, memCache, cafe_vibes, cafe_amenities, aCafe, aReviews, pending,
                   fetchLog, vibesBefore, amenBefore, memBefore, saveLog>>

\* saveAnalysisToDatabase, first half: the cafe_vibes upsert (skipped when no
\* vibe is above the threshold).  A failed upsert throws; the catch around the
\* parse in analyzeReviews turns that into a null return.
SaveVibes(ok) ==
    /\ aPc = "save_vibes"
    /\ IF DOMAIN HighConfidenceVibes(pending) = {}
       THEN /\ ok
            /\ aPc' = "save_amenities"
            /\ UNCHANGED <<cafe_vibes, saveLog, aResult, aRaised>>
       ELSE IF ok
       THEN /\ cafe_vibes' =
                  [cafe_vibes EXCEPT ![aCafe] = ScoreRow(HighConfidenceVibes(pending), now)]
            /\ saveLog' = Append(saveLog, <<"cafe_vibes", "ok">>)
            /\ aPc' = "save_amenities"
            /\ UNCHANGED <<aResult, aRaised>>
       ELSE /\ saveLog' = Append(saveLog, <<"cafe_vibes", "error">>)
            /\ AReturn(Null)
            /\ UNCHANGED cafe_vibes
    /\ UNCHANGED <<now, ticks, memCache, cafe_amenities, aCafe, aReviews, attempt, pending,
                   fetchLog, vibesBefore, amenBefore, memBefore>>

\* Mutation of SaveAmenities: the analysis is cached although its upsert failed.
SaveAmenities_CacheOnError(ok) ==
    /\ aPc = "save_amenities"
    /\ IF DOMAIN HighConfidenceAmenities(pending) # {} /\ ~ok
       THEN /\ saveLog' = Append(saveLog, <<"cafe_amenities", "error">>)
            /\ memCache' = CacheAnalysis(memCache, aCafe, pending, now)
            /\ AReturn(Null)
            /\ UNCHANGED cafe_amenities
       ELSE /\ IF DOMAIN HighConfidenceAmenities(pending) = {}
               THEN ok /\ UNCHANGED <<cafe_amenities, saveLog>>
               ELSE /\ cafe_amenities' =
                          [cafe_amenities EXCEPT
                              ![aCafe] = ScoreRow(HighConfidenceAmenities(pending), now)]
                    /\ saveLog' = Append(saveLog, <<"cafe_amenities", "ok">>)
            /\ memCache' = CacheAnalysis(memCache, aCafe, pending, now)
            /\ AReturn(pending)
    /\ UNCHANGED <<now, ticks, cafe_vibes, aCafe, aReviews, attempt, pending, fetchLog,
                   vibesBefore, amenBefore, memBefore>>
\* saveAnalysisToDatabase, second half: the cafe_amenities upsert, then
\* cacheAnalysis and the return of the analysis.
SaveAmenities(ok) ==
    /\ aPc = "save_amenities"
    /\ IF DOMAIN HighConfidenceAmenities(pending) # {} /\ ~ok
       THEN /\ saveLog' = Append(saveLog, <<"cafe_amenities", "error">>)
            /\ AReturn(Null)
            /\ UNCHANGED <<cafe_amenities, memCache>>
       ELSE /\ IF DOMAIN HighConfidenceAmenities(pending) = {}
               THEN ok /\ UNCHANGED <<cafe_amenities, saveLog>>
               ELSE /\ cafe_amenities' =
                          [cafe_amenities EXCEPT
                              ![aCafe] = ScoreRow(HighConfidenceAmenities(pending), now)]
                    /\ saveLog' = Append(saveLog, <<"cafe_amenities", "ok">>)
            /\ memCache' = CacheAnalysis(memCache, aCafe, pending, now)
            /\ AReturn(pending)
    /\ UNCHANGED <<now, ticks, cafe_vibes, aCafe, aReviews, attempt, pending, fetchLog,
                   vibesBefore, amenBefore, memBefore>>

\* The caller receives the result; the bookkeeping of the call is dropped.
AnalyzeReturn ==
    /\ aPc = "done"
    /\ aPc' = "idle"
    /\ aCafe' = "c1"
    /\ aReviews' = NoReviews
    /\ attempt' = 1
    /\ pending' = Null
    /\ aResult' = Null
    /\ aRaised' = FALSE
    /\ fetchLog' = <<>>
    /\ saveLog' = <<>>
    /\ vibesBefore' = [c \in Cafes |-> NoRow]
    /\ amenBefore' = [c \in Cafes |-> NoRow]
    /\ memBefore' = [c \in Cafes |-> NoEntry]
    /\ UNCHANGED <<now, ticks, memCache, cafe_vibes, cafe_amenities>>

\* The clock advances.
\* A call lasts seconds; the steps of the clock are a day long, between calls.
TickSteps == {CACHE_DURATION, CACHE_DURATION + 1}
Tick(d) ==
    /\ aPc = "idle"
    /\ ticks < MaxTicks
    /\ ticks' = ticks + 1
    /\ now' = now + d
    /\ UNCHANGED <<memCache, cafe_vibes, cafe_amenities, aPc, aCafe, aReviews, attempt, pending,
                   aResult, aRaised, fetchLog, vibesBefore, amenBefore, memBefore,
                   saveLog>>

\* A new server instance: the module-scope AnalysisService starts with an empty Map.
Restart ==
    /\ aPc = "idle"
    /\ memCache # [c \in Cafes |-> NoEntry]
    /\ memCache' = [c \in Cafes |-> NoEntry]
    /\ UNCHANGED <<now, ticks, cafe_vibes, cafe_amenities, aPc, aCafe, aReviews, attempt, pending,
                   aResult, aRaised, fetchLog, vibesBefore, amenBefore, memBefore,
                   saveLog>>

\* State of AnalysisService and its tables before any call.
AnalysisInit ==
    /\ now = 0
    /\ ticks = 0
    /\ memCache = [c \in Cafes |-> NoEntry]
    /\ cafe_vibes = [c \in Cafes |-> NoRow]
    /\ cafe_amenities = [c \in Cafes |-> NoRow]
    /\ aPc = "idle"
    /\ aCafe = "c1"
    /\ aReviews = NoReviews
    /\ attempt = 1
    /\ pending = Null
    /\ aResult = Null
    /\ aRaised = FALSE
    /\ fetchLog = <<>>
    /\ saveLog = <<>>
    /\ vibesBefore = [c \in Cafes |-> NoRow]
    /\ amenBefore = [c \in Cafes |-> NoRow]
    /\ memBefore = [c \in Cafes |-> NoEntry]

(***************************************************************************)
(* Claims about analyzeReviews (checked under SpecAnalysis)                *)
(***************************************************************************)
RateLimited == HttpError(STATUS_RATE_LIMIT)
LastAnswer == fetchLog[Len(fetchLog)]
NothingPersisted ==
    /\ cafe_vibes = vibesBefore
    /\ cafe_amenities = amenBefore
    /\ saveLog = <<>>
NothingCached == memCache = memBefore /\ memCache[aCafe] = NoEntry
OnlyRateLimits ==
    fetchLog # <<>> /\ \A i \in 1..Len(fetchLog) : fetchLog[i] = RateLimited
SaveFailed == \E i \in 1..Len(saveLog) : saveLog[i][2] = "error"
StoredCategories(row) == IF row = NoRow THEN {} ELSE DOMAIN row.scores

\* C1: when the provider answers every call of an analyzeReviews run with 429,
\* the run makes exactly 3 provider calls and then returns null: it never makes
\* a fourth call, never ends before the third, throws nothing to its caller,
\* writes no score record and creates no cache entry.
C1_RateLimitedRunMakesThreeCalls ==
    OnlyRateLimits =>
        /\ Len(fetchLog) <= 3
        /\ aPc \in {"fetch", "delay", "done"}
        /\ (aPc = "done") = (Len(fetchLog) = 3)
        /\ aPc = "done" => (aResult = Null /\ ~aRaised)
        /\ NothingPersisted
        /\ NothingCached
C1_Witness ==
    /\ aPc = "done"
    /\ fetchLog = <<RateLimited, RateLimited, RateLimited>>
    /\ aResult = Null

\* C2 (as claimed): a 429 before the last attempt is followed by another
\* attempt, and when a later attempt returns a valid response the call returns
\* that analysis.
C2_RetryThenValidReturnsAnalysis ==
    /\ (fetchLog # <<>> /\ LastAnswer = RateLimited /\ Len(fetchLog) < 3) =>
            \/ aPc = "delay" /\ attempt = Len(fetchLog)
            \/ aPc = "fetch" /\ attempt = Len(fetchLog) + 1
    /\ (/\ aPc = "done"
        /\ Len(fetchLog) > 1
        /\ fetchLog[1] = RateLimited
        /\ LastAnswer.kind = "ok"
        /\ LastAnswer.content = "object"
        /\ LastAnswer.obj \in ValidAnalyses) => aResult = LastAnswer.obj
\* C2 (amended): a 429 before the last attempt is followed by another attempt;
\* when a later attempt returns a valid response the call returns that analysis
\* if both score upserts go through, and null if one of them fails; in neither
\* case does the call throw.
C2_RetryThenValidReturnsAnalysisIfSaved ==
    /\ (fetchLog # <<>> /\ LastAnswer = RateLimited /\ Len(fetchLog) < 3) =>
            \/ aPc = "delay" /\ attempt = Len(fetchLog)
            \/ aPc = "fetch" /\ attempt = Len(fetchLog) + 1
    /\ (/\ aPc = "done"
        /\ Len(fetchLog) > 1
        /\ fetchLog[1] = RateLimited
        /\ LastAnswer.kind = "ok"
        /\ LastAnswer.content = "object"
        /\ LastAnswer.obj \in ValidAnalyses) =>
            /\ ~aRaised
            /\ aResult = IF SaveFailed THEN Null ELSE LastAnswer.obj
C2_Witness ==
    /\ aPc = "done"
    /\ fetchLog = <<RateLimited, OkObject(BaseAnalysis)>>
    /\ aResult = BaseAnalysis

\* C3: a scoring response whose content is not parsable, lacks a required vibe
\* or amenity category, or holds a value that is not a number in [0,1] ends the
\* call with null; the call has written no vibe row and no amenity row and has
\* created no cache entry.
RejectedContent(ans) ==
    /\ ans.kind = "ok"
    /\ \/ ans.content = "unparsable"
       \/ ans.content = "object" /\ ans.obj \in InvalidObjects
C4_OnlyAboveThresholdStored ==
    /\ \A c \in Cafes :
        /\ cafe_vibes[c] # NoRow =>
              \A k \in DOMAIN cafe_vibes[c].scores : cafe_vibes[c].scores[k] > 400
        /\ cafe_amenities[c] # NoRow =>
              \A k \in DOMAIN cafe_amenities[c].scores : cafe_amenities[c].scores[k] > 500
    /\ (aPc = "done" /\ aResult = BaseAnalysis /\ fetchLog # <<>>) =>
        /\ cafe_vibes[aCafe].scores = [k \in {"cozy"} |-> 500]
        /\ cafe_amenities[aCafe].scores = [k \in {"wifi"} |-> 600]
C4_Witness ==
    /\ aPc = "done"
    /\ fetchLog # <<>>
    /\ aResult = BaseAnalysis
    /\ StoredCategories(cafe_vibes[aCafe]) = {"cozy"}
    /\ StoredCategories(cafe_amenities[aCafe]) = {"wifi"}

\* C5 (as claimed): when one of the two score writes of a call fails, the
\* stored vibe and amenity rows are all the ones from before the call.
C5_FailedSaveLeavesOldRecords ==
    (aPc = "done" /\ SaveFailed) =>
        (cafe_vibes = vibesBefore /\ cafe_amenities = amenBefore)

\* C6 (as claimed): after a successful re-analysis of a cafe the stored vibe
\* categories are exactly those the new analysis scores above 0.4 and the stored
\* amenity categories exactly those it scores above 0.5.
Reanalysed ==
    /\ aPc = "done"
    /\ fetchLog # <<>>
    /\ aResult # Null
    /\ (vibesBefore[aCafe] # NoRow \/ amenBefore[aCafe] # NoRow)
C6_ReanalysisSupersedes ==
    Reanalysed =>
        /\ StoredCategories(cafe_vibes[aCafe]) =
              {k \in VibeCategories : aResult.vibe_scores[k].v > 400}
        /\ StoredCategories(cafe_amenities[aCafe]) =
              {k \in AmenityTypes : aResult.amenity_scores[k].v > 500}

\* C21 (as claimed): only a 429 status is retried.  A non-success status other
\* than 429 is the last answer the provider gives in that call: no attempt
\* follows it and the call ends with null.
OtherErrorStatus(ans) == ans.kind = "http" /\ ans.status # STATUS_RATE_LIMIT
C21_OtherStatusIsTerminal ==
    \A i \in 1..Len(fetchLog) :
        OtherErrorStatus(fetchLog[i]) =>
            /\ i = Len(fetchLog)
            /\ aPc = "done"
            /\ aResult = Null

\* The cafe of the running call has no reviews, or review text of fewer than
\* 50 characters in total.
TooLittleText ==
    /\ aPc # "idle"
    /\ (aReviews.count = 0 \/ aReviews.totalText < MIN_REVIEW_TEXT)
\* The call has ended without a provider call, a written score record or a
\* new entry of the in-memory cache.
EndedUntouched ==
    /\ aPc = "done"
    /\ ~aRaised
    /\ fetchLog = <<>>
    /\ NothingPersisted
    /\ memCache = memBefore

\* C35 (as claimed): for a cafe that has no reviews or whose total review
\* text is shorter than 50 characters, analyzeReviews makes no provider call,
\* writes no score record, creates no in-memory cache entry and returns null.
C35_TooLittleTextReturnsNull ==
    TooLittleText => (EndedUntouched /\ aResult = Null)

\* C35 (amended): for such a cafe analyzeReviews makes no provider call,
\* writes no score record and creates no in-memory cache entry; it returns
\* null, except that a cafe with reviews gets the analysis of its in-memory
\* cache entry when that entry has not expired.
C35_TooLittleTextReturnsNullOrCached ==
    TooLittleText =>
        /\ EndedUntouched
        /\ aResult = IF aReviews.count > 0 /\ memBefore[aCafe] # NoEntry
                     THEN memBefore[aCafe].analysis ELSE Null
\* A call for a cafe with one review of 49 characters has returned the
\* analysis that an earlier call had cached.
C35_Witness ==
    /\ aPc = "done"
    /\ aReviews = [count |-> 1, totalText |-> MIN_REVIEW_TEXT - 1]
    /\ memBefore[aCafe] # NoEntry
    /\ aResult = memBefore[aCafe].analysis
    /\ fetchLog = <<>>

\* C38: the in-memory cache only holds analyses that passed isValidAnalysis,
\* and a call changes it only by caching the analysis it returns after the
\* save completed without error: a failed, skipped or malformed analysis
\* leaves the cache as the call found it.
C38_CacheHoldsOnlySavedValidAnalyses ==
    /\ \A c \in Cafes : memCache[c] # NoEntry => IsValidAnalysis(memCache[c].analysis)
    /\ (aPc # "idle" /\ memCache # memBefore) =>
          /\ aPc = "done"
          /\ ~aRaised
          /\ ~SaveFailed
          /\ aResult # Null
          /\ IsValidAnalysis(aResult)
          /\ memCache = CacheAnalysis(memBefore, aCafe, aResult, now)
\* A call whose first attempt failed and whose second attempt gave a valid
\* analysis has stored and cached it for a cafe that had no entry.
C38_Witness ==
    /\ aPc = "done"
    /\ Len(fetchLog) = 2
    /\ memBefore[aCafe] = NoEntry
    /\ memCache[aCafe] # NoEntry
    /\ memCache[aCafe].analysis = aResult
    /\ ~SaveFailed

(***************************************************************************)
(* CacheService: the location cache (src/lib/services/cache.ts)            *)
(***************************************************************************)
\* JavaScript values that reach the parameters of CacheService.
Undefined == [t |-> "undefined"]
JsString(s) == [t |-> "string", s |-> s]
JsNumber(n) == [t |-> "number", n |-> n]
JsArray(items) == [t |-> "array", items |-> items]

\* Array.prototype.toString: the items joined by commas.
RECURSIVE JoinComma(_)
JoinComma(items) ==
    IF items = <<>> THEN ""
    ELSE IF Len(items) = 1 THEN items[1]
    ELSE items[1] \o "," \o JoinComma(Tail(items))

\* A number with up to five decimals, held in units of 0.00001.
JsDecimal(e5) == [t |-> "decimal", e5 |-> e5]
\* Number.prototype.toString of such a number: the digits it has, no trailing
\* zeros, no rounding.
RECURSIVE Digits(_, _)
Digits(n, width) == IF width = 0 THEN "" ELSE Digits(n \div 10, width - 1) \o ToString(n % 10)
RECURSIVE FractionDigits(_, _)
FractionDigits(f, width) ==
    IF f % 10 = 0 THEN FractionDigits(f \div 10, width - 1) ELSE Digits(f, width)
FormatDecimal(e5) ==
    LET abs == IF e5 < 0 THEN -e5 ELSE e5
    IN  (IF e5 < 0 THEN "-" ELSE "") \o ToString(abs \div 100000)
            \o (IF abs % 100000 = 0 THEN "" ELSE "." \o FractionDigits(abs % 100000, 5))

\* `${v}` in a template literal.
TemplateString(v) ==
    CASE v.t = "string" -> v.s
      [] v.t = "number" -> ToString(v.n)
      [] v.t = "decimal" -> FormatDecimal(v.e5)
      [] v.t = "array" -> JoinComma(v.items)
      [] OTHER -> "undefined"

\* The truthiness that `v || 'any'` tests.
Truthy(v) ==
    CASE v.t = "string" -> v.s # ""
      [] v.t = "number" -> v.n # 0
      [] v.t = "decimal" -> v.e5 # 0
      [] v.t = "array" -> TRUE
      [] OTHER -> FALSE

ONE_DAY == 24 * 60 * 60 * 1000
LOCATION_CACHE_DURATION == ONE_DAY
DEFAULT_RADIUS == 5000

\* The default value of the parameter radius.
RadiusOrDefault(radius) == IF radius = Undefined THEN JsNumber(DEFAULT_RADIUS) ELSE radius

\* Mutation of CacheKey: the price part is left out when no price is given.
CacheKey_OmitAny(searchLocation, priceRange, radius) ==
    TemplateString(searchLocation)
        \o (IF Truthy(priceRange) THEN ":" \o TemplateString(priceRange) ELSE "")
        \o ":" \o TemplateString(RadiusOrDefault(radius))

\* const cacheKey = `${searchLocation}:${priceRange || 'any'}:${radius}`
CacheKey(searchLocation, priceRange, radius) ==
    TemplateString(searchLocation)
        \o ":" \o (IF Truthy(priceRange) THEN TemplateString(priceRange) ELSE "any")
        \o ":" \o TemplateString(RadiusOrDefault(radius))

KeyOf(args) == CacheKey(args.searchLocation, args.priceRange, args.radius)

\* Table location_cache, primary key search_location.
EmptyTable == [k \in {} |-> NoRow]
SelectSingle(table, key) == IF key \in DOMAIN table THEN table[key] ELSE NoRow
Upsert(table, key, row) ==
    [k \in DOMAIN table \cup {key} |-> IF k = key THEN row ELSE table[k]]
Delete(table, key) == [k \in DOMAIN table \ {key} |-> table[k]]
\* cafe_ids UUID[] NOT NULL: a value that is not an array is rejected.
AcceptsCafeIds(cafeIds) == cafeIds.t = "array"

\* Mutation of IsStale: an entry of exactly the TTL counts as expired.
IsStale_Inclusive(row, t) == t - row.last_updated >= LOCATION_CACHE_DURATION
\* cacheAge > this.LOCATION_CACHE_DURATION
IsStale(row, t) == t - row.last_updated > LOCATION_CACHE_DURATION

\* Arguments of the calls made in the model.
Args(searchLocation, priceRange, radius) ==
    [searchLocation |-> searchLocation, priceRange |-> priceRange, radius |-> radius]
CacheArgs ==
    { Args(JsString("Seattle"), Undefined, Undefined),
      Args(JsString("Seattle"), JsString("$"), Undefined),
      Args(JsString("Seattle:$"), Undefined, Undefined),
      Args(JsString("Seattle"), Undefined, JsNumber(5000)) }
IdLists == { JsArray(<<"u1", "u2">>), JsArray(<<"u2", "u1">>), JsArray(<<>>) }
KnownKeys == { KeyOf(a) : a \in CacheArgs }

NoOp == [op |-> "none"]
NoPut == [put |-> FALSE]

\* A CacheService call returns / throws to its caller.
CReturn(value) ==
    /\ cPc' = "done"
    /\ cResult' = value
    /\ cRaised' = FALSE
CThrow ==
    /\ cPc' = "done"
    /\ cResult' = Null
    /\ cRaised' = TRUE

\* getLocationCache up to its return or to the await of invalidateLocationCache.
\* ok = FALSE: the select comes back with an error (or data is missing).
GetLocationCacheCall(args, ok) ==
    /\ cPc = "idle"
    /\ cOp' = [op |-> "get", args |-> args, key |-> KeyOf(args)]
    /\ cacheBefore' = location_cache
    /\ cDel' = "none"
    /\ IF ~ok \/ SelectSingle(location_cache, KeyOf(args)) = NoRow
       THEN /\ cSeen' = IF ok THEN "missing" ELSE "error"
            /\ CReturn(Null)
       ELSE IF IsStale(SelectSingle(location_cache, KeyOf(args)), now)
       THEN /\ cSeen' = "stale"
            /\ cPc' = "invalidate"
            /\ UNCHANGED <<cResult, cRaised>>
       ELSE /\ cSeen' = "fresh"
            /\ CReturn(SelectSingle(location_cache, KeyOf(args)).cafe_ids)
    /\ UNCHANGED <<location_cache, lastPut, everPut, evicted>>

\* invalidateLocationCache called on its own.
InvalidateCall(key) ==
    /\ cPc = "idle"
    /\ cPc' = "invalidate"
    /\ cOp' = [op |-> "invalidate", key |-> key]
    /\ cacheBefore' = location_cache
    /\ UNCHANGED <<location_cache, cSeen, cDel, cResult, cRaised, lastPut, everPut,
                   evicted>>

\* invalidateLocationCache: the delete; its error is logged and dropped.  The
\* caller (getLocationCache or the direct caller) then gets null / void.
InvalidateLocationCache(ok) ==
    /\ cPc = "invalidate"
    /\ cDel' = IF ok THEN "ok" ELSE "error"
    /\ location_cache' = IF ok THEN Delete(location_cache, cOp.key) ELSE location_cache
    /\ evicted' = IF ok THEN evicted \cup {cOp.key} ELSE evicted
    /\ lastPut' = IF lastPut # NoPut /\ lastPut.key = cOp.key THEN NoPut ELSE lastPut
    /\ CReturn(Null)
    /\ UNCHANGED <<cOp, cSeen, cacheBefore, everPut>>

\* cacheLocationResults: the upsert; an error is rethrown.
CacheLocationResultsCall(args, cafeIds, ok) ==
    /\ cPc = "idle"
    /\ cOp' = [op |-> "put", args |-> args, key |-> KeyOf(args), cafeIds |-> cafeIds]
    /\ cacheBefore' = location_cache
    /\ cSeen' = "none"
    /\ cDel' = "none"
    /\ IF ok /\ AcceptsCafeIds(cafeIds)
       THEN /\ location_cache' =
                  Upsert(location_cache, KeyOf(args),
                         [cafe_ids |-> cafeIds, last_updated |-> now])
            /\ lastPut' = [args |-> args, key |-> KeyOf(args), cafeIds |-> cafeIds,
                           time |-> now]
            /\ everPut' = everPut \cup {args}
            /\ evicted' = evicted \ {KeyOf(args)}
            /\ CReturn(Null)
       ELSE /\ lastPut' = IF lastPut # NoPut /\ lastPut.key = KeyOf(args)
                          THEN NoPut ELSE lastPut
            /\ CThrow
            /\ UNCHANGED <<location_cache, everPut, evicted>>

\* The caller has the result; the bookkeeping of the call is dropped.
CacheReturn ==
    /\ cPc = "done"
    /\ cPc' = "idle"
    /\ cOp' = NoOp
    /\ cSeen' = "none"
    /\ cDel' = "none"
    /\ cResult' = Null
    /\ cRaised' = FALSE
    /\ cacheBefore' = EmptyTable
    /\ UNCHANGED <<location_cache, lastPut, everPut, evicted>>

\* State of the location cache before any call.
CacheInit ==
    /\ location_cache = EmptyTable
    /\ cPc = "idle"
    /\ cOp = NoOp
    /\ cSeen = "none"
    /\ cDel = "none"
    /\ cResult = Null
    /\ cRaised = FALSE
    /\ cacheBefore = EmptyTable
    /\ lastPut = NoPut
    /\ everPut = {}
    /\ evicted = {}

(***************************************************************************)
(* Claims about the location cache (checked under SpecCache)               *)
(***************************************************************************)
GetDone == cPc = "done" /\ cOp.op = "get"
\* Two argument triples name the same search: same location, same price tier
\* (none given on both sides, or the same one), same radius after the default.
SameSearch(a, b) ==
    /\ a.searchLocation = b.searchLocation
    /\ a.priceRange = b.priceRange
    /\ (IF a.radius = Undefined THEN 5000 ELSE a.radius.n)
           = (IF b.radius = Undefined THEN 5000 ELSE b.radius.n)
NeverWritten(a) == \A b \in everPut : ~SameSearch(a, b)
FollowsPut ==
    /\ GetDone
    /\ lastPut # NoPut
    /\ SameSearch(cOp.args, lastPut.args)
    /\ now - lastPut.time <= 24 * 60 * 60 * 1000

\* C7 (as claimed): a getLocationCache that follows a successful
\* cacheLocationResults of the same search, with no write or invalidation of the
\* key in between and within 24 hours, returns the ids that were written, in the
\* same order; a search never written returns null.
C7_RoundTripReturnsIds ==
    /\ FollowsPut => cResult = lastPut.cafeIds
    /\ (GetDone /\ NeverWritten(cOp.args)) => cResult = Null
\* C7 (amended): as above when the select of the read does not come back with
\* an error; when it does, the read returns null and the stored entry stays.
C7_RoundTripReturnsIdsIfReadWorks ==
    /\ (FollowsPut /\ cSeen # "error") => cResult = lastPut.cafeIds
    /\ (FollowsPut /\ cSeen = "error") =>
            (cResult = Null /\ location_cache = cacheBefore)
    /\ (GetDone /\ NeverWritten(cOp.args)) => cResult = Null
    /\ GetDone => ~cRaised
C7_Witness ==
    /\ FollowsPut
    /\ now - lastPut.time = 24 * 60 * 60 * 1000
    /\ lastPut.cafeIds = JsArray(<<"u2", "u1">>)
    /\ cResult = JsArray(<<"u2", "u1">>)

StoredBefore == cOp.key \in DOMAIN cacheBefore
AgeBefore == now - cacheBefore[cOp.key].last_updated
OthersUntouched ==
    \A k \in DOMAIN cacheBefore \ {cOp.key} :
        k \in DOMAIN location_cache /\ location_cache[k] = cacheBefore[k]

\* C8 (as claimed): a read of an entry older than 24 hours returns null and
\* deletes the entry, and a read of a key evicted that way (and not written
\* since) returns null and finds nothing stored; a read of an entry of at most
\* 24 hours returns its ids and leaves the table as it was.
C8_ExpiredEntryEvictedOnRead ==
    /\ (GetDone /\ StoredBefore /\ AgeBefore > 24 * 60 * 60 * 1000) =>
            (cResult = Null /\ cOp.key \notin DOMAIN location_cache)
    /\ (GetDone /\ cOp.key \in evicted) =>
            (cResult = Null /\ cOp.key \notin DOMAIN location_cache)
    /\ (GetDone /\ StoredBefore /\ AgeBefore <= 24 * 60 * 60 * 1000) =>
            (cResult = cacheBefore[cOp.key].cafe_ids /\ location_cache = cacheBefore)
\* C8 (amended): a read of an entry older than 24 hours returns null; the entry
\* is deleted when the select and the delete both go through, and stays stored
\* when either comes back with an error (the read still returns null).  A read
\* of a key evicted and not written since returns null and finds nothing
\* stored.  A read of an entry of at most 24 hours leaves the table as it was
\* and returns the ids, or null when the select comes back with an error.
C8_ExpiredEntryEvictedWhenDeleteWorks ==
    /\ (GetDone /\ StoredBefore /\ AgeBefore > 24 * 60 * 60 * 1000) =>
            /\ cResult = Null
            /\ OthersUntouched
            /\ (cSeen # "error" /\ cDel = "ok") => cOp.key \notin DOMAIN location_cache
            /\ (cSeen = "error" \/ cDel = "error") => location_cache = cacheBefore
            /\ cSeen # "error" => cDel \in {"ok", "error"}
    /\ (GetDone /\ cOp.key \in evicted) =>
            (cResult = Null /\ cOp.key \notin DOMAIN location_cache)
    /\ (GetDone /\ StoredBefore /\ AgeBefore <= 24 * 60 * 60 * 1000) =>
            /\ location_cache = cacheBefore
            /\ cDel = "none"
            /\ cResult = IF cSeen = "error" THEN Null ELSE cacheBefore[cOp.key].cafe_ids
C8_Witness ==
    /\ GetDone
    /\ StoredBefore
    /\ AgeBefore = 24 * 60 * 60 * 1000 + 1
    /\ cSeen = "stale"
    /\ cDel = "ok"
    /\ cResult = Null
    /\ cOp.key \notin DOMAIN location_cache

(***************************************************************************)
(* handleRequest: cache lookup, search, store and cache                    *)
(* (src/routes/api/getRecommendation/+server.ts)                           *)
(***************************************************************************)
Places == {"g1", "g2"}
PlaceOrder == <<"g1", "g2">>
SearchResults == { <<>>, <<"g1">>, <<"g1", "g2">> }
Coordinates == { [lat |-> 47, lng |-> -122], [lat |-> 47, lng |-> 0] }
PriceRanges == { Undefined, JsString("$") }
SEARCH_RADIUS == 5000
STATUS_OK == 200
STATUS_BAD_REQUEST == 400
STATUS_NOT_FOUND == 404
STATUS_SERVER_ERROR == 500

Uuid(n) == "u" \o ToString(n)
CafeRow(id, place) == [id |-> id, google_place_id |-> place]
SeqRange(s) == { s[i] : i \in 1..Len(s) }
IdsOf(rows) == [i \in 1..Len(rows) |-> rows[i].id]
PlaceIdsOf(rows) == { rows[i].google_place_id : i \in 1..Len(rows) }

\* The rows of a select, in a fixed order.
RECURSIVE RowsInOrder(_, _)
RowsInOrder(rows, order) ==
    IF order = <<>> THEN <<>>
    ELSE LET here == { r \in rows : r.google_place_id = Head(order) }
         IN  (IF here = {} THEN <<>> ELSE <<CHOOSE r \in here : TRUE>>)
                 \o RowsInOrder(rows, Tail(order))

\* getPlaceDetails for each place of a search result: a place whose lookup,
\* update or insert fails is dropped; an existing row is updated with the new
\* object (its id included) and the old id is returned; a new row is inserted
\* and returned.
RECURSIVE PersistPlaces(_, _, _, _)
PersistPlaces(places, saved, table, next) ==
    IF places = <<>> THEN [table |-> table, next |-> next, nearby |-> <<>>]
    ELSE LET p == Head(places)
             existing == { r \in table : r.google_place_id = p }
             cafe == CafeRow(Uuid(next + 1), p)
             here == IF p \notin saved
                     THEN [table |-> table, next |-> next, found |-> <<>>]
                     ELSE IF existing # {}
                     THEN [table |-> (table \ existing) \cup {cafe},
                           next |-> next + 1,
                           found |-> <<CafeRow((CHOOSE r \in existing : TRUE).id, p)>>]
                     ELSE [table |-> table \cup {cafe},
                           next |-> next + 1,
                           found |-> <<cafe>>]
             rest == PersistPlaces(Tail(places), saved, here.table, here.next)
         IN  [table |-> rest.table, next |-> rest.next,
              nearby |-> here.found \o rest.nearby]

\* upsert(nearbyCafes, {onConflict: 'google_place_id', ignoreDuplicates: true})
UpsertIgnoreDuplicates(table, rows) ==
    table \cup { r \in SeqRange(rows) :
                    \A t \in table : t.google_place_id # r.google_place_id }

\* cachedCafeIds?.length
HasLength(v) == v # Null /\ v.t = "array" /\ Len(v.items) > 0

\* cacheService.getLocationCache(coordinates.lat, coordinates.lng, 5000, priceRange):
\* the values land on (searchLocation, priceRange, radius); the fourth has no
\* parameter.
HandlerGetArgs(coordinates, priceRange) ==
    Args(JsNumber(coordinates.lat), JsNumber(coordinates.lng), JsNumber(SEARCH_RADIUS))

\* cacheService.cacheLocationResults(coordinates.lat, coordinates.lng,
\* cafes.map(cafe => cafe.id), 5000, priceRange): the values land on
\* (searchLocation, cafeIds, priceRange, radius); the fifth has no parameter.
HandlerPutArgs(coordinates, ids, priceRange) ==
    Args(JsNumber(coordinates.lat), JsArray(ids), JsNumber(SEARCH_RADIUS))
HandlerPutCafeIds(coordinates, ids, priceRange) == JsNumber(coordinates.lng)

\* Mutation of StoreCatch: the error leaves the try of step 4 and reaches the
\* catch around the search, which answers 400.
StoreCatch_Rethrow(nearby) ==
    [pc |-> "responded", cafes |-> nearby, status |-> STATUS_BAD_REQUEST, at |-> "store"]
\* catch (error) { cafes = nearbyCafes } : continue with the cafes we found.
StoreCatch(nearby) ==
    [pc |-> "analyze", cafes |-> nearby, status |-> 0, at |-> "none"]

NoRequest == [request |-> FALSE]
NoRead == [read |-> FALSE]

HRespond(status, at) ==
    /\ hPc' = "responded"
    /\ hResponse' = status
    /\ hRespondedAt' = at

\* The body of the request: { mood, location, requirements = [], priceRange }.
ValidMoods ==
    {"cozy", "modern", "quiet", "lively", "artistic", "traditional", "industrial"}
ValidRequirements ==
    {"wifi", "outdoor_seating", "power_outlets", "pet_friendly", "parking",
     "workspace_friendly", "food_menu"}
Body(location, mood, requirements, priceRange) ==
    [location |-> location, mood |-> mood, requirements |-> requirements,
     priceRange |-> priceRange]
Bodies ==
    { Body(l, m, r, p) :
        l \in {Undefined, JsString(""), JsString("Seattle")},
        m \in {Undefined, JsString("cozy"), JsString("relaxed")},
        r \in {Undefined, JsArray(<<"wifi", "sauna">>)},
        p \in PriceRanges }
\* requirements = [] : the default of the destructuring.
RequirementsOrDefault(requirements) ==
    IF requirements = Undefined THEN <<>> ELSE requirements.items
InvalidRequirements(requirements) ==
    { r \in SeqRange(RequirementsOrDefault(requirements)) : r \notin ValidRequirements }

\* Mutation of Validate: a body without requirements is refused.
Validate_RequirementsRequired(body) ==
    IF ~Truthy(body.location) THEN "Location is required"
    ELSE IF ~Truthy(body.mood) THEN "Mood is required"
    ELSE IF body.mood.s \notin ValidMoods THEN "Invalid mood value"
    ELSE IF body.requirements = Undefined THEN "Requirements are required"
    ELSE IF InvalidRequirements(body.requirements) # {} THEN "Invalid requirements"
    ELSE "ok"
\* Mutation of Validate: the mood is not compared with the allowed values.
Validate_AnyMood(body) ==
    IF ~Truthy(body.location) THEN "Location is required"
    ELSE IF ~Truthy(body.mood) THEN "Mood is required"
    ELSE IF InvalidRequirements(body.requirements) # {} THEN "Invalid requirements"
    ELSE "ok"
\* Validate required fields, mood and requirements: the error of the first
\* check that fails, "ok" when none does.
Validate(body) ==
    IF ~Truthy(body.location) THEN "Location is required"
    ELSE IF ~Truthy(body.mood) THEN "Mood is required"
    ELSE IF body.mood.s \notin ValidMoods THEN "Invalid mood value"
    ELSE IF InvalidRequirements(body.requirements) # {} THEN "Invalid requirements"
    ELSE "ok"

NoCoordinates == [geocoded |-> FALSE]
\* Mutation of GeocodeFailed: a failed geocoding is not noticed.
GeocodeFailed_Never(geo) == FALSE
\* geocodeLocation threw.
GeocodeFailed(geo) == geo = NoCoordinates

\* 0. verifyDatabaseSetup, the validation of the body, 1. geocoding.
\* setupOk = FALSE: verifyDatabaseSetup throws; geo = NoCoordinates:
\* geocodeLocation throws.
RequestStart(body, setupOk, geo) ==
    /\ hPc = "idle"
    /\ cPc = "idle"
    /\ IF ~setupOk
       THEN /\ geo = NoCoordinates
            /\ hReq' = [body |-> body, coordinates |-> NoCoordinates,
                        priceRange |-> body.priceRange]
            /\ hCalls' = <<"setup">>
            /\ HRespond(STATUS_SERVER_ERROR, "setup")
       ELSE IF Validate(body) # "ok"
       THEN /\ geo = NoCoordinates
            /\ hReq' = [body |-> body, coordinates |-> NoCoordinates,
                        priceRange |-> body.priceRange]
            /\ hCalls' = <<"setup">>
            /\ HRespond(STATUS_BAD_REQUEST, "validate")
       ELSE /\ hReq' = [body |-> body, coordinates |-> geo,
                        priceRange |-> body.priceRange]
            /\ hCalls' = <<"setup", "geocode">>
            /\ IF GeocodeFailed(geo)
               THEN HRespond(STATUS_BAD_REQUEST, "geocode")
               ELSE hPc' = "lookup" /\ UNCHANGED <<hResponse, hRespondedAt>>
    /\ UNCHANGED <<cafes, nextUuid, hCachedIds, hNearby, hCafes, hUpsert, hReadBack,
                   hSearched, hCacheFailed, hCacheWrites>>

\* Mutation of NeedsSearch: the search runs whatever the cache gave.
NeedsSearch_Always(loaded) == TRUE
\* if (!cafes.length): no cached results, or the cache was invalid.
NeedsSearch(loaded) == Len(loaded) = 0

\* Mutation of NoCandidates: an empty search result is not noticed.
NoCandidates_Never(nearby) == FALSE
\* if (!nearbyCafes.length)
NoCandidates(nearby) == Len(nearby) = 0

\* 2. Check location cache: the call of getLocationCache.
Lookup(ok) ==
    /\ hPc = "lookup"
    /\ hCalls' = Append(hCalls, "cache_get")
    /\ GetLocationCacheCall(HandlerGetArgs(hReq.coordinates, hReq.priceRange), ok)
    /\ hPc' = "lookup_wait"
    /\ hCacheFailed' = IF ok THEN hCacheFailed ELSE hCacheFailed \cup {"read"}
    /\ UNCHANGED <<cafes, nextUuid, hReq, hCachedIds, hNearby, hCafes, hResponse,
                   hRespondedAt, hUpsert, hReadBack, hSearched, hCacheWrites>>

\* getLocationCache has returned: cache hit or miss.
LookupDone ==
    /\ hPc = "lookup_wait"
    /\ CacheReturn
    /\ hCachedIds' = cResult
    /\ hPc' = IF HasLength(cResult) THEN "load_cached"
              ELSE IF NeedsSearch(hCafes) THEN "search" ELSE "analyze"
    /\ hCacheFailed' = IF cDel = "error" THEN hCacheFailed \cup {"evict"}
                       ELSE hCacheFailed
    /\ UNCHANGED <<cafes, nextUuid, hReq, hNearby, hCafes, hResponse, hRespondedAt,
                   hUpsert, hReadBack, hSearched, hCacheWrites, hCalls>>

\* Cache hit: the cafes of the cached ids are loaded; an error is thrown and
\* caught by the catch around the lookup.
LoadCached(ok) ==
    /\ hPc = "load_cached"
    /\ hCalls' = Append(hCalls, "load_cached")
    /\ LET rows == RowsInOrder({ r \in cafes : r.id \in SeqRange(hCachedIds.items) },
                               PlaceOrder)
           loaded == IF ok /\ rows # <<>> THEN rows ELSE hCafes
       IN  /\ hCafes' = loaded
           /\ hPc' = IF NeedsSearch(loaded) THEN "search" ELSE "analyze"
    /\ hCacheFailed' = IF ok THEN hCacheFailed ELSE hCacheFailed \cup {"load"}
    /\ UNCHANGED <<cafes, nextUuid, hReq, hCachedIds, hNearby, hResponse,
                   hRespondedAt, hUpsert, hReadBack, hSearched, hCacheWrites>>

\* 3. searchNearbyCafes: result = <<"error">> stands for a throw of the search.
Search(found, saved, ok) ==
    /\ hPc = "search"
    /\ hCalls' = Append(hCalls, "search")
    /\ nextUuid + Cardinality(saved \cap SeqRange(found)) <= MaxUuids
    /\ IF ~ok
       THEN /\ found = <<>> /\ saved = {}
            /\ HRespond(STATUS_BAD_REQUEST, "search")
            /\ UNCHANGED <<cafes, nextUuid, hNearby, hSearched>>
       ELSE LET res == PersistPlaces(found, saved, cafes, nextUuid)
            IN  /\ saved \subseteq SeqRange(found)
                /\ cafes' = res.table
                /\ nextUuid' = res.next
                /\ hNearby' = res.nearby
                /\ hSearched' = TRUE
                /\ IF NoCandidates(res.nearby)
                   THEN HRespond(STATUS_NOT_FOUND, "search")
                   ELSE hPc' = "upsert" /\ UNCHANGED <<hResponse, hRespondedAt>>
    /\ UNCHANGED <<hReq, hCachedIds, hCafes, hUpsert, hReadBack, hCacheFailed,
                   hCacheWrites>>

\* 4. Store cafes: the upsert; its result is not looked at.
UpsertCafes(ok) ==
    /\ hPc = "upsert"
    /\ hCalls' = Append(hCalls, "upsert")
    /\ cafes' = IF ok THEN UpsertIgnoreDuplicates(cafes, hNearby) ELSE cafes
    /\ hUpsert' = IF ok THEN "ok" ELSE "error"
    /\ hPc' = "readback"
    /\ UNCHANGED <<nextUuid, hReq, hCachedIds, hNearby, hCafes, hResponse,
                   hRespondedAt, hReadBack, hSearched, hCacheFailed, hCacheWrites>>

\* The read back of the cafes by google_place_id; an error or an empty result
\* is thrown to the catch of step 4.
ReadBack(ok) ==
    /\ hPc = "readback"
    /\ hCalls' = Append(hCalls, "readback")
    /\ LET allCafes == RowsInOrder({ r \in cafes :
                                       r.google_place_id \in PlaceIdsOf(hNearby) },
                                   PlaceOrder)
       IN  IF ok /\ allCafes # <<>>
           THEN /\ hCafes' = allCafes
                /\ hReadBack' = [read |-> TRUE, ids |-> IdsOf(allCafes)]
                /\ hPc' = "cache_write"
                /\ UNCHANGED <<hResponse, hRespondedAt>>
           ELSE /\ hCafes' = StoreCatch(hNearby).cafes
                /\ hPc' = StoreCatch(hNearby).pc
                /\ hResponse' = StoreCatch(hNearby).status
                /\ hRespondedAt' = StoreCatch(hNearby).at
                /\ UNCHANGED hReadBack
    /\ UNCHANGED <<cafes, nextUuid, hReq, hCachedIds, hNearby, hUpsert, hSearched,
                   hCacheFailed, hCacheWrites>>

\* The call of cacheLocationResults.
CacheWrite(ok) ==
    /\ hPc = "cache_write"
    /\ hCalls' = Append(hCalls, "cache_put")
    /\ CacheLocationResultsCall(
           HandlerPutArgs(hReq.coordinates, IdsOf(hCafes), hReq.priceRange),
           HandlerPutCafeIds(hReq.coordinates, IdsOf(hCafes), hReq.priceRange), ok)
    /\ hPc' = "cache_write_wait"
    /\ hCacheWrites' = Append(hCacheWrites, <<cOp'.key, cOp'.cafeIds>>)
    /\ UNCHANGED <<cafes, nextUuid, hReq, hCachedIds, hNearby, hCafes, hResponse,
                   hRespondedAt, hUpsert, hReadBack, hSearched, hCacheFailed>>

\* cacheLocationResults has returned or thrown.
CacheWriteDone ==
    /\ hPc = "cache_write_wait"
    /\ CacheReturn
    /\ IF cRaised
       THEN /\ hCafes' = StoreCatch(hNearby).cafes
            /\ hPc' = StoreCatch(hNearby).pc
            /\ hResponse' = StoreCatch(hNearby).status
            /\ hRespondedAt' = StoreCatch(hNearby).at
            /\ hCacheFailed' = hCacheFailed \cup {"write"}
       ELSE /\ hPc' = "analyze"
            /\ UNCHANGED <<hCafes, hResponse, hRespondedAt, hCacheFailed>>
    /\ UNCHANGED <<cafes, nextUuid, hReq, hCachedIds, hNearby, hUpsert, hReadBack,
                   hSearched, hCacheWrites, hCalls>>

\* Steps 5 to 8 (analysis, ranking, streaming): they end the request with a
\* stream, with 404 or with an error caught by the outer catch.
FinishStatuses == {STATUS_OK, STATUS_NOT_FOUND, STATUS_SERVER_ERROR}
Finish(status) ==
    /\ hPc = "analyze"
    /\ hCalls' = Append(hCalls, "recommend")
    /\ HRespond(status, "recommend")
    /\ UNCHANGED <<cafes, nextUuid, hReq, hCachedIds, hNearby, hCafes, hUpsert,
                   hReadBack, hSearched, hCacheFailed, hCacheWrites>>

\* The response has been sent; the locals of the request are dropped.
RequestReturn ==
    /\ hPc = "responded"
    /\ hPc' = "idle"
    /\ hReq' = NoRequest
    /\ hCachedIds' = Null
    /\ hNearby' = <<>>
    /\ hCafes' = <<>>
    /\ hResponse' = 0
    /\ hRespondedAt' = "none"
    /\ hUpsert' = "none"
    /\ hReadBack' = NoRead
    /\ hSearched' = FALSE
    /\ hCacheFailed' = {}
    /\ hCacheWrites' = <<>>
    /\ hCalls' = <<>>
    /\ UNCHANGED <<cafes, nextUuid>>

\* State of the handler and of table cafes before any request.
RequestInit ==
    /\ cafes = {}
    /\ nextUuid = 0
    /\ hPc = "idle"
    /\ hReq = NoRequest
    /\ hCachedIds = Null
    /\ hNearby = <<>>
    /\ hCafes = <<>>
    /\ hResponse = 0
    /\ hRespondedAt = "none"
    /\ hUpsert = "none"
    /\ hReadBack = NoRead
    /\ hSearched = FALSE
    /\ hCacheFailed = {}
    /\ hCacheWrites = <<>>
    /\ hCalls = <<>>

\* Another caller of the CacheService API writes under the key the handler
\* looks up for the coordinates (47, -122).
DirectPutArgs == Args(JsString("47"), JsString("-122"), Undefined)
DirectIdLists == { JsArray(<<"u1">>), JsArray(<<"u1", "u2">>) }

(***************************************************************************)
(* Claims about handleRequest (checked under SpecRequest)                  *)
(***************************************************************************)
AfterSearchSteps == {"upsert", "readback", "cache_write", "cache_write_wait", "analyze"}
NonCacheResponders == {"search", "recommend"}
HandlerCacheCallDone == cPc = "done" /\ hPc \in {"lookup_wait", "cache_write_wait"}

\* C9 (as claimed): a failing cache read or cache write yields null instead of
\* raising, the request goes on to the external search or continues with the
\* cafes it found, and no response of a request with a failed cache step is
\* produced by a cache step.
C9_CacheFailureNeverRaises ==
    /\ (HandlerCacheCallDone /\ cOp.op \in {"get", "put"}) => ~cRaised
    /\ ("read" \in hCacheFailed) => (hCachedIds = Null /\ hPc # "load_cached")
    /\ (hCacheFailed \cap {"read", "load"} # {} /\ hPc \in AfterSearchSteps) => hSearched
    /\ ("write" \in hCacheFailed) => (hPc \in {"analyze", "responded"} /\ hCafes = hNearby)
    /\ (hPc = "responded" /\ hCacheFailed # {}) => hRespondedAt \in NonCacheResponders
\* C9 (amended): a failing cache read yields null and never raises; a failing
\* cache write is rethrown by cacheLocationResults and leaves the table as it
\* was, and the handler catches it and continues with the cafes the search
\* found.  After a failed read or a failed load of cached cafes the request goes
\* on to the external search; no response of a request with a failed cache step
\* is produced by a cache step.
C9_CacheFailureAbsorbedByHandler ==
    /\ (HandlerCacheCallDone /\ cOp.op = "get") =>
            (~cRaised /\ (cSeen = "error" => cResult = Null))
    /\ (HandlerCacheCallDone /\ cOp.op = "put" /\ cRaised) =>
            location_cache = cacheBefore
    /\ ("read" \in hCacheFailed) => (hCachedIds = Null /\ hPc # "load_cached")
    /\ (hCacheFailed \cap {"read", "load"} # {} /\ hPc \in AfterSearchSteps) => hSearched
    /\ ("write" \in hCacheFailed) =>
            (hPc \in {"analyze", "responded"} /\ hCafes = hNearby /\ hNearby # <<>>)
    /\ (hPc = "responded" /\ hCacheFailed # {}) => hRespondedAt \in NonCacheResponders
C9_Witness ==
    /\ hPc = "analyze"
    /\ hCacheFailed = {"read", "write"}
    /\ hSearched
    /\ Len(hNearby) = 2
    /\ hCafes = hNearby
    /\ hResponse = 0

\* C10 (as claimed): every search-cache write of a request comes after a
\* successful upsert and a successful read back of the cafes, and the ids it
\* writes are the ids that were read back.
C10_CacheWriteHoldsReadBackIds ==
    \A i \in 1..Len(hCacheWrites) :
        /\ hUpsert = "ok"
        /\ hReadBack # NoRead
        /\ hCacheWrites[i][2] = JsArray(hReadBack.ids)

\* The step taken is the call of searchNearbyCafes.
SearchCalled == Len(hCalls') = Len(hCalls) + 1 /\ hCalls'[Len(hCalls')] = "search"
\* The step taken ends the cache lookup with a miss (no entry, an expired
\* entry, or a failed read).
CacheMissed == hPc = "lookup_wait" /\ hPc' # hPc /\ ~HasLength(cResult)
\* The rows of the cafes table that the cached ids refer to.
CachedRows == { r \in cafes : r.id \in SeqRange(hCachedIds.items) }
\* The step taken is the load of the cafes of a cache hit.
HitLoaded == hPc = "load_cached" /\ hPc' # hPc

\* C11: the external place search is called only after a cache miss or after a
\* cache hit of which the load gave no cafe (no row left for the cached ids,
\* or the query failed); a cache hit that loads at least one cafe goes on to
\* the analysis without calling the search.
C11_SearchOnlyOnMissOrUnloadableHit ==
    [][ /\ SearchCalled => hPc = "search"
        /\ (hPc # "search" /\ hPc' = "search") =>
              \/ CacheMissed
              \/ HitLoaded /\ (CachedRows = {} \/ "load" \in hCacheFailed')
        /\ (HitLoaded /\ CachedRows # {} /\ "load" \notin hCacheFailed') =>
              /\ hPc' = "analyze"
              /\ SeqRange(IdsOf(hCafes')) = { r.id : r \in CachedRows }
              /\ ~hSearched' ]_vars
\* A cache hit has loaded a cafe and the request reached the analysis without
\* a call of the search.
C11_Witness ==
    /\ hPc = "analyze"
    /\ HasLength(hCachedIds)
    /\ Len(hCafes) >= 1
    /\ hCalls = <<"setup", "geocode", "cache_get", "load_cached">>

\* The number of calls of one collaborator in the log of the request.
CallCount(name) == Cardinality({ i \in 1..Len(hCalls) : hCalls[i] = name })
CallsAfterSearch == {"upsert", "readback", "cache_put", "recommend"}

\* C12: a search that gives no candidate ends the request with 404, a status
\* that a failed (thrown) search does not get; the search was called once, and
\* no upsert, read back, cache write, analysis or ranking follows it.
C12_NoCandidatesAnsweredNotFound ==
    /\ (hSearched /\ Len(hNearby) = 0) =>
          /\ hPc = "responded"
          /\ hResponse = STATUS_NOT_FOUND
          /\ hRespondedAt = "search"
          /\ CallCount("search") = 1
          /\ hCalls[Len(hCalls)] = "search"
          /\ SeqRange(hCalls) \cap CallsAfterSearch = {}
          /\ hUpsert = "none"
          /\ hReadBack = NoRead
          /\ hCacheWrites = <<>>
          /\ cPc = "idle"
    /\ (hPc = "responded" /\ hRespondedAt = "search" /\ ~hSearched) =>
          hResponse = STATUS_BAD_REQUEST
    /\ STATUS_NOT_FOUND \notin {STATUS_BAD_REQUEST, STATUS_SERVER_ERROR}
\* The search has returned no candidate and the request is answered.
C12_Witness ==
    /\ hPc = "responded"
    /\ hSearched
    /\ hNearby = <<>>
    /\ hResponse = STATUS_NOT_FOUND

\* The request in progress got no coordinates from geocodeLocation.
GeocodingFailed ==
    /\ hReq # NoRequest
    /\ "geocode" \in SeqRange(hCalls)
    /\ hReq.coordinates = NoCoordinates

\* C13: a failed geocoding ends the request with an error response (400), and
\* the request has made no cache lookup, search, persistence, analysis or
\* ranking call.
C13_GeocodingFailureIsTerminal ==
    GeocodingFailed =>
        /\ hPc = "responded"
        /\ hResponse = STATUS_BAD_REQUEST
        /\ hRespondedAt = "geocode"
        /\ hCalls = <<"setup", "geocode">>
        /\ hCachedIds = Null
        /\ ~hSearched
        /\ hUpsert = "none"
        /\ hReadBack = NoRead
        /\ hCacheWrites = <<>>
        /\ cPc = "idle"
\* A request with a valid body was answered after geocodeLocation threw.
C13_Witness ==
    /\ GeocodingFailed
    /\ hPc = "responded"
    /\ hResponse = STATUS_BAD_REQUEST

\* The body has no location, no mood, a mood outside the seven vibes, or a
\* requirement outside the seven amenities.
InvalidBody(body) ==
    \/ body.location \in {Undefined, JsString("")}
    \/ body.mood \in {Undefined, JsString("")}
    \/ body.mood.s \notin ValidMoods
    \/ /\ body.requirements # Undefined
       /\ \E i \in 1..Len(body.requirements.items) :
              body.requirements.items[i] \notin ValidRequirements
\* Validation has been reached by the request in progress: the database
\* setup check before it did not throw.
ValidationReached == hReq # NoRequest /\ hRespondedAt # "setup"

WithoutRequirements ==
    /\ ValidationReached
    /\ Truthy(hReq.body.location)
    /\ Truthy(hReq.body.mood)
    /\ hReq.body.requirements = Undefined

C31_WriteKeyIsLookupKey ==
    hPc = "cache_write_wait" =>
        /\ cOp.key = KeyOf(HandlerGetArgs(hReq.coordinates, hReq.priceRange))
        /\ cOp.cafeIds = JsArray(IdsOf(hCafes))

\* The ids of the rows stored in the table.
StoredIds(table) == { r.id : r \in table }
\* The step taken is a searchNearbyCafes that returned cafes.
Discovered == hPc = "search" /\ hPc' = "upsert"

\* C37 (as claimed): a stored entity keeps its id through every discovery (a
\* row of cafes is still stored under the same id and google_place_id after
\* any step), and the ids returned by a discovery identify stored entities.
C37_EntityIdentityIsStable ==
    [][/\ \A r \in cafes : r \in cafes'
       /\ Discovered => SeqRange(IdsOf(hNearby')) \subseteq StoredIds(cafes')]_vars

(***************************************************************************)
(* handleRequest, steps 5 to 8: the analysis of the cafes in batches, the  *)
(* ranking by RecommendationService.getRecommendations and the streamed    *)
(* answer.  Steps 0 to 4 are summarised by one action that delivers the    *)
(* cafes they found; an analyzeReviews call is summarised by the way it    *)
(* ends.                                                                   *)
(***************************************************************************)
BATCH_SIZE == 3
RECOMMENDATION_LIMIT == 5
ONE_WEEK == 7 * ONE_DAY
ANALYSIS_CACHE_DURATION == ONE_WEEK
STATUS_TIMEOUT == 504

\* The cafes around the searched location and their distance to it in metres.
CandidateIds == {"u1", "u2", "u3", "u4"}
PlaceOf(id) ==
    CASE id = "u1" -> "g1" [] id = "u2" -> "g2" [] id = "u3" -> "g3" [] OTHER -> "g4"
DistanceOf(id) ==
    CASE id = "u1" -> 2000 [] id = "u2" -> 1000 [] id = "u3" -> 3000 [] OTHER -> 4000
PriceLevelOf(id) ==
    CASE id = "u1" -> JsString("$") [] id = "u2" -> JsString("$$$") [] id = "u3" -> Null
      [] OTHER -> JsString("$$")
\* The lists of cafes steps 1 to 4 hand to step 5.
CandidateLists == { <<"u1">>, <<"u2", "u1">>, <<"u1", "u2", "u3", "u4">> }
\* The bodies of the requests that reach step 5.
RankBodies ==
    { Body(JsString("Seattle"), JsString("cozy"), r, Undefined) :
        r \in {Undefined, JsArray(<<"parking">>)} }
    \cup { Body(JsString("Seattle"), JsString("cozy"), Undefined, JsString("$")) }

NoRanking == [ranked |-> FALSE]
Ranking(rows) == [ranked |-> TRUE, recommendations |-> rows]

\* How an analyzeReviews call ends for its caller:
\*   "saved":   both upserts done, the analysis is returned;
\*   "partial": the cafe_vibes upsert done, the cafe_amenities upsert failed,
\*              null is returned;
\*   "null":    nothing stored, null is returned (no or too little review
\*              text, retries exhausted, malformed answer, failed first upsert);
\*   "throw":   nothing stored, the promise rejects.
AnalysisOutcomes == {"saved", "partial", "null", "throw"}

\* Steps 0 to 4 have ended with a non-empty list of cafes, all stored in cafes.
CandidatesFound(body, ids) ==
    /\ hPc = "idle"
    /\ hReq' = [body |-> body, coordinates |-> [lat |-> 47, lng |-> -122],
                priceRange |-> body.priceRange]
    /\ hCafes' = [i \in 1..Len(ids) |-> CafeRow(ids[i], PlaceOf(ids[i]))]
    /\ cafes' = cafes \cup { CafeRow(ids[i], PlaceOf(ids[i])) : i \in 1..Len(ids) }
    /\ hSearched' = TRUE
    /\ hCalls' = <<"setup", "geocode", "cache_get", "search", "upsert", "readback",
                   "cache_put">>
    /\ hPc' = "check"
    /\ hIdx' = 1
    /\ UNCHANGED <<nextUuid, hCachedIds, hNearby, hResponse, hRespondedAt, hUpsert,
                   hReadBack, hCacheFailed, hCacheWrites, hToAnalyze, hAnalyzed,
                   hBatch, hInFlight, hOutcomes, hRanked, cafe_vibes, cafe_amenities>>

\* existingVibes?.length, existingAmenities?.length
HasRows(table, id) == table[id] # NoRow
\* if (!existingVibes?.length && !existingAmenities?.length)
NeedsAnalysis(vibes, amenities, id) == ~HasRows(vibes, id) /\ ~HasRows(amenities, id)

\* 5. One pass of the loop over cafes: the two selects and the choice.
CheckExisting ==
    /\ hPc = "check"
    /\ LET id == hCafes[hIdx].id
           push == NeedsAnalysis(cafe_vibes, cafe_amenities, id)
           toAnalyze == IF push THEN Append(hToAnalyze, id) ELSE hToAnalyze
       IN  /\ hToAnalyze' = toAnalyze
           /\ hAnalyzed' = IF push THEN hAnalyzed ELSE hAnalyzed \cup {id}
           /\ hCalls' = Append(hCalls, "existing")
           /\ IF hIdx < Len(hCafes)
              THEN hIdx' = hIdx + 1 /\ UNCHANGED hPc
              ELSE /\ hIdx' = hIdx
                   /\ hPc' = IF Len(toAnalyze) > 0 THEN "batch" ELSE "rank"
    /\ UNCHANGED <<cafes, nextUuid, hReq, hCachedIds, hNearby, hCafes, hResponse,
                   hRespondedAt, hUpsert, hReadBack, hSearched, hCacheFailed,
                   hCacheWrites, hBatch, hInFlight, hOutcomes, hRanked,
                   cafe_vibes, cafe_amenities>>

\* Mutation of BatchOf: the slice has no upper end.
BatchOf_Rest(toAnalyze, i) ==
    { toAnalyze[k] : k \in { j \in 1..Len(toAnalyze) : j >= i } }
\* cafesToAnalyze.slice(i, i + BATCH_SIZE)
BatchOf(toAnalyze, i) ==
    { toAnalyze[k] : k \in { j \in 1..Len(toAnalyze) : j >= i /\ j < i + BATCH_SIZE } }

\* batch.map(async ...): the analyzeReviews calls of the batch are started.
StartBatch ==
    /\ hPc = "batch"
    /\ hInFlight' = BatchOf(hToAnalyze, hBatch)
    /\ hCalls' = Append(hCalls, "analyze")
    /\ hPc' = "settle"
    /\ UNCHANGED <<cafes, nextUuid, hReq, hCachedIds, hNearby, hCafes, hResponse,
                   hRespondedAt, hUpsert, hReadBack, hSearched, hCacheFailed,
                   hCacheWrites, hIdx, hToAnalyze, hAnalyzed, hBatch, hOutcomes,
                   hRanked, cafe_vibes, cafe_amenities>>

\* Mutation of AnalysisSettles: a rejected call rejects the batch and the
\* request (Promise.all, no catch around the call).
AnalysisSettles_Abort(id, outcome) ==
    /\ hPc = "settle"
    /\ id \in hInFlight
    /\ hOutcomes' = hOutcomes \cup {<<id, outcome>>}
    /\ IF outcome = "throw"
       THEN /\ hInFlight' = {}
            /\ HRespond(STATUS_SERVER_ERROR, "analyze")
            /\ UNCHANGED <<hAnalyzed, cafe_vibes, cafe_amenities>>
       ELSE /\ hInFlight' = hInFlight \ {id}
            /\ hAnalyzed' = hAnalyzed \cup {id}
            /\ cafe_vibes' =
                  IF outcome \in {"saved", "partial"}
                  THEN [cafe_vibes EXCEPT
                           ![id] = ScoreRow(HighConfidenceVibes(BaseAnalysis), now)]
                  ELSE cafe_vibes
            /\ cafe_amenities' =
                  IF outcome = "saved"
                  THEN [cafe_amenities EXCEPT
                           ![id] = ScoreRow(HighConfidenceAmenities(BaseAnalysis), now)]
                  ELSE cafe_amenities
            /\ UNCHANGED <<hPc, hResponse, hRespondedAt>>
    /\ UNCHANGED <<cafes, nextUuid, hReq, hCachedIds, hNearby, hCafes, hUpsert,
                   hReadBack, hSearched, hCacheFailed, hCacheWrites, hCalls, hIdx,
                   hToAnalyze, hBatch, hRanked>>
\* One analyzeReviews call of the batch ends; analyzedCafes.add follows a
\* return (null included), the catch follows a rejection.
AnalysisSettles(id, outcome) ==
    /\ hPc = "settle"
    /\ id \in hInFlight
    /\ hInFlight' = hInFlight \ {id}
    /\ hOutcomes' = hOutcomes \cup {<<id, outcome>>}
    /\ hAnalyzed' = IF outcome = "throw" THEN hAnalyzed ELSE hAnalyzed \cup {id}
    /\ cafe_vibes' =
          IF outcome \in {"saved", "partial"}
          THEN [cafe_vibes EXCEPT ![id] = ScoreRow(HighConfidenceVibes(BaseAnalysis), now)]
          ELSE cafe_vibes
    /\ cafe_amenities' =
          IF outcome = "saved"
          THEN [cafe_amenities EXCEPT
                   ![id] = ScoreRow(HighConfidenceAmenities(BaseAnalysis), now)]
          ELSE cafe_amenities
    /\ UNCHANGED <<cafes, nextUuid, hPc, hReq, hCachedIds, hNearby, hCafes, hResponse,
                   hRespondedAt, hUpsert, hReadBack, hSearched, hCacheFailed,
                   hCacheWrites, hCalls, hIdx, hToAnalyze, hBatch, hRanked>>

\* Mutation of AllSettled: the batch is not awaited.
AllSettled_NoWait(inFlight) == TRUE
\* await Promise.allSettled(...): every call of the batch has ended.
AllSettled(inFlight) == inFlight = {}

\* The await of the batch resumes: next batch, or step 6.
BatchDone ==
    /\ hPc = "settle"
    /\ AllSettled(hInFlight)
    /\ hBatch' = hBatch + BATCH_SIZE
    /\ hPc' = IF hBatch + BATCH_SIZE <= Len(hToAnalyze) THEN "batch" ELSE "rank"
    /\ UNCHANGED <<cafes, nextUuid, hReq, hCachedIds, hNearby, hCafes, hResponse,
                   hRespondedAt, hUpsert, hReadBack, hSearched, hCacheFailed,
                   hCacheWrites, hCalls, hIdx, hToAnalyze, hAnalyzed, hInFlight,
                   hOutcomes, hRanked, cafe_vibes, cafe_amenities>>

(***************************************************************************)
(* RecommendationService: find_cafes_v2 and calculateScore                 *)
(***************************************************************************)
WEIGHT_VIBE == 350
WEIGHT_AMENITY == 250
WEIGHT_DISTANCE == 250
WEIGHT_PRICE == 150
MAX_PREFERRED_DISTANCE == 5000
BASE_VIBE_SCORE == 300
NEUTRAL_AMENITY_SCORE == 400
FULL_SCORE == 1000

COMPLEMENTARY_VIBES(mood) ==
    CASE mood = "cozy" -> <<"quiet", "traditional">>
      [] mood = "modern" -> <<"artistic", "industrial", "lively">>
      [] mood = "quiet" -> <<"cozy", "traditional">>
      [] mood = "lively" -> <<"modern", "artistic">>
      [] mood = "artistic" -> <<"modern", "industrial", "lively">>
      [] mood = "traditional" -> <<"cozy", "quiet">>
      [] mood = "industrial" -> <<"modern", "artistic">>
      [] OTHER -> <<>>

\* scores[key] || 0
ScoreOrZero(scores, key) == IF key \in DOMAIN scores THEN scores[key] ELSE 0
RECURSIVE SumScores(_, _)
SumScores(scores, keys) ==
    IF keys = <<>> THEN 0
    ELSE ScoreOrZero(scores, Head(keys)) + SumScores(scores, Tail(keys))

\* COALESCE(v.vibe_scores, '{}'), cafe.vibe_scores || {}
EmptyScores == [k \in {} |-> 0]
\* The aggregated scores of a cafe, {} when it has none.
JoinedScores(table, id) == IF table[id] = NoRow THEN EmptyScores ELSE table[id].scores

TotalVibeScore(vibeScores, targetMood) ==
    LET directVibeScore == ScoreOrZero(vibeScores, targetMood)
        complementaryVibes == COMPLEMENTARY_VIBES(targetMood)
        complementaryScore ==
            IF Len(complementaryVibes) > 0
            THEN (SumScores(vibeScores, complementaryVibes) * 8)
                     \div (10 * Len(complementaryVibes))
            ELSE 0
    IN  IF directVibeScore > 0 THEN directVibeScore
        ELSE IF complementaryScore > 0 THEN complementaryScore
        ELSE BASE_VIBE_SCORE

AmenityScore(amenityScores, requirements) ==
    IF Len(requirements) > 0
    THEN LET average == SumScores(amenityScores, requirements) \div Len(requirements)
         IN  IF average = 0 THEN NEUTRAL_AMENITY_SCORE ELSE average
    ELSE FULL_SCORE

DistanceScore(distance) ==
    IF distance >= MAX_PREFERRED_DISTANCE THEN 0
    ELSE FULL_SCORE - (distance * FULL_SCORE) \div MAX_PREFERRED_DISTANCE

PriceToNumber(price) ==
    CASE price = JsString("$") -> 1
      [] price = JsString("$$") -> 2
      [] price = JsString("$$$") -> 3
      [] OTHER -> 0
\* calculatePriceScore: exact match 1, one level of difference 0.7, otherwise
\* 0.4; no preference or no price level gives the full score.
CalculatePriceScore(cafePrice, targetPrice) ==
    IF ~Truthy(targetPrice) \/ cafePrice = Null THEN FULL_SCORE
    ELSE LET diff == PriceToNumber(cafePrice) - PriceToNumber(targetPrice)
             priceDiff == IF diff < 0 THEN -diff ELSE diff
         IN  IF priceDiff = 0 THEN FULL_SCORE ELSE IF priceDiff = 1 THEN 700 ELSE 400

\* The weights and the factors are in thousandths, so the score is in
\* millionths: no digit of the weighted sum is dropped.
CalculateScore(cafe, targetMood, requirements, distance, priceRange) ==
      WEIGHT_VIBE * TotalVibeScore(cafe.vibe_scores, targetMood)
    + WEIGHT_AMENITY * AmenityScore(cafe.amenity_scores, requirements)
    + WEIGHT_DISTANCE * DistanceScore(distance)
    + WEIGHT_PRICE * CalculatePriceScore(cafe.price_level, priceRange)

\* The rows of find_cafes_v2, nearest first.
RECURSIVE NearestFirst(_)
NearestFirst(ids) ==
    IF ids = {} THEN <<>>
    ELSE LET id == CHOOSE x \in ids : \A y \in ids : DistanceOf(x) <= DistanceOf(y)
         IN  <<id>> \o NearestFirst(ids \ {id})
FirstRows(rows, n) == [i \in 1..(IF Len(rows) < n THEN Len(rows) ELSE n) |-> rows[i]]

\* [...scoredCafes].sort((a, b) => b._score - a._score): a stable sort.
\* Mutation of InsertByScore: a row goes ahead of the rows of the same score.
RECURSIVE InsertByScore_Unstable(_, _)
InsertByScore_Unstable(sorted, row) ==
    IF sorted = <<>> THEN <<row>>
    ELSE IF Head(sorted).score > row.score
         THEN <<Head(sorted)>> \o InsertByScore_Unstable(Tail(sorted), row)
         ELSE <<row>> \o sorted
RECURSIVE InsertByScore(_, _)
InsertByScore(sorted, row) ==
    IF sorted = <<>> THEN <<row>>
    ELSE IF Head(sorted).score >= row.score
         THEN <<Head(sorted)>> \o InsertByScore(Tail(sorted), row)
         ELSE <<row>> \o sorted
RECURSIVE SortByScore(_)
SortByScore(rows) ==
    IF rows = <<>> THEN <<>>
    ELSE InsertByScore(SortByScore(SubSeq(rows, 1, Len(rows) - 1)), rows[Len(rows)])

\* Mutation of NearbyCafes: an inner join with the vibe scores.
NearbyCafes_Inner(table, vibes) == { r.id : r \in { x \in table : vibes[x.id] # NoRow } }
\* nearby_cafes LEFT JOIN the scores: every cafe within the radius, with or
\* without scores.
NearbyCafes(table, vibes) == { r.id : r \in table }

\* The cafes getRecommendations scores for a request.
ScoredCafes(table, vibes, amenities, body) ==
    LET found == FirstRows(NearestFirst(NearbyCafes(table, vibes)), RECOMMENDATION_LIMIT)
    IN  [i \in 1..Len(found) |->
            LET vibeScores == JoinedScores(vibes, found[i])
                amenityScores == JoinedScores(amenities, found[i])
                requirements == RequirementsOrDefault(body.requirements)
            IN  [id |-> found[i],
                 vibe |-> TotalVibeScore(vibeScores, body.mood.s),
                 amenity |-> AmenityScore(amenityScores, requirements),
                 score |-> CalculateScore(
                              [vibe_scores |-> vibeScores, amenity_scores |-> amenityScores,
                               price_level |-> PriceLevelOf(found[i])],
                              body.mood.s, requirements, DistanceOf(found[i]),
                              Undefined)]]

\* 6. getRecommendations: the query, the scores, the sort, the first five.
\* An error of the query and an empty result are thrown to the outer catch of
\* handleRequest.
GetRecommendations(ok) ==
    /\ hPc = "rank"
    /\ hCalls' = Append(hCalls, "recommend")
    /\ hCafes' = SelectSeq(hCafes, LAMBDA c : c.id \in hAnalyzed)
    /\ LET scored == ScoredCafes(cafes, cafe_vibes, cafe_amenities, hReq.body)
           recommendations == FirstRows(SortByScore(scored), RECOMMENDATION_LIMIT)
       IN  IF ~ok \/ Len(scored) = 0
           THEN /\ HRespond(STATUS_SERVER_ERROR, "recommend")
                /\ UNCHANGED hRanked
           ELSE /\ hRanked' = Ranking(recommendations)
                /\ IF Len(recommendations) = 0
                   THEN HRespond(STATUS_NOT_FOUND, "recommend")
                   ELSE hPc' = "stream" /\ UNCHANGED <<hResponse, hRespondedAt>>
    /\ UNCHANGED <<cafes, nextUuid, hReq, hCachedIds, hNearby, hUpsert, hReadBack,
                   hSearched, hCacheFailed, hCacheWrites, hIdx, hToAnalyze, hAnalyzed,
                   hBatch, hInFlight, hOutcomes, cafe_vibes, cafe_amenities>>

\* 8. OpenAIStream: the stream is returned, or its failure is answered 500.
StreamAnswer(ok) ==
    /\ hPc = "stream"
    /\ hCalls' = Append(hCalls, "stream")
    /\ HRespond(IF ok THEN STATUS_OK ELSE STATUS_SERVER_ERROR, "stream")
    /\ UNCHANGED <<cafes, nextUuid, hReq, hCachedIds, hNearby, hCafes, hUpsert,
                   hReadBack, hSearched, hCacheFailed, hCacheWrites, hIdx, hToAnalyze,
                   hAnalyzed, hBatch, hInFlight, hOutcomes, hRanked,
                   cafe_vibes, cafe_amenities>>

\* The locals of steps 5 to 8 before and after a request.
ExtraInit ==
    /\ hIdx = 1
    /\ hToAnalyze = <<>>
    /\ hAnalyzed = {}
    /\ hBatch = 1
    /\ hInFlight = {}
    /\ hOutcomes = {}
    /\ hRanked = NoRanking

\* The response has been sent.
RecommendReturn ==
    /\ RequestReturn
    /\ hIdx' = 1
    /\ hToAnalyze' = <<>>
    /\ hAnalyzed' = {}
    /\ hBatch' = 1
    /\ hInFlight' = {}
    /\ hOutcomes' = {}
    /\ hRanked' = NoRanking
    /\ UNCHANGED <<cafe_vibes, cafe_amenities>>

\* The tables of the analysis for the cafes of the requests.
RecommendInit ==
    /\ now = 0
    /\ ticks = 0
    /\ memCache = [c \in Cafes |-> NoEntry]
    /\ cafe_vibes = [c \in CandidateIds |-> NoRow]
    /\ cafe_amenities = [c \in CandidateIds |-> NoRow]
    /\ aPc = "idle"
    /\ aCafe = "c1"
    /\ aReviews = NoReviews
    /\ attempt = 1
    /\ pending = Null
    /\ aResult = Null
    /\ aRaised = FALSE
    /\ fetchLog = <<>>
    /\ saveLog = <<>>
    /\ vibesBefore = [c \in Cafes |-> NoRow]
    /\ amenBefore = [c \in Cafes |-> NoRow]
    /\ memBefore = [c \in Cafes |-> NoEntry]

\* Days pass between two requests: more than the seven days of the analysis
\* cache.
StaleSteps == {ANALYSIS_CACHE_DURATION + 1}

(***************************************************************************)
(* POST: handleRequest raced against a timer of 30 seconds.  Time is in    *)
(* seconds here; handleRequest is a promise that resolves with a Response  *)
(* at some time or not at all (its own catch turns every error into a      *)
(* Response).                                                              *)
(***************************************************************************)
REQUEST_TIMEOUT == 30
HandlerStatuses == {STATUS_OK, STATUS_BAD_REQUEST, STATUS_NOT_FOUND, STATUS_SERVER_ERROR}

\* Mutation of ErrorStatus: every error of the race is answered 500.
ErrorStatus_Always500(message) == STATUS_SERVER_ERROR
\* status: error.message === 'Request timeout' ? 504 : 500
ErrorStatus(message) ==
    IF message = "Request timeout" THEN STATUS_TIMEOUT ELSE STATUS_SERVER_ERROR

PostInit ==
    /\ pPc = "idle"
    /\ pElapsed = 0
    /\ pTimer = "unset"
    /\ pHandler = "none"
    /\ pResult = 0
    /\ pResponse = 0
    /\ pAnsweredBy = "none"

\* POST sets the timer, calls handleRequest and awaits the race.
PostStart ==
    /\ pPc = "idle"
    /\ pPc' = "racing"
    /\ pElapsed' = 0
    /\ pTimer' = "armed"
    /\ pHandler' = "pending"
    /\ UNCHANGED <<pResult, pResponse, pAnsweredBy>>

\* One second passes; the timer does not let the 30th second pass unfired.
SecondPasses ==
    /\ pTimer = "armed"
    /\ pElapsed < REQUEST_TIMEOUT
    /\ pElapsed' = pElapsed + 1
    /\ UNCHANGED <<pPc, pTimer, pHandler, pResult, pResponse, pAnsweredBy>>

\* handleRequest resolves with a Response; it is the answer of POST when the
\* race is not settled yet, and is dropped otherwise.
HandlerResolves(status) ==
    /\ pHandler = "pending"
    /\ pHandler' = "resolved"
    /\ pResult' = status
    /\ IF pPc = "racing"
       THEN pPc' = "responded" /\ pResponse' = status /\ pAnsweredBy' = "handler"
       ELSE UNCHANGED <<pPc, pResponse, pAnsweredBy>>
    /\ UNCHANGED <<pElapsed, pTimer>>

\* The timer fires: reject(new Error('Request timeout')); the catch of POST
\* answers when the race is not settled yet.
TimerFires ==
    /\ pTimer = "armed"
    /\ pElapsed = REQUEST_TIMEOUT
    /\ pTimer' = "fired"
    /\ IF pPc = "racing"
       THEN /\ pPc' = "responded"
            /\ pResponse' = ErrorStatus("Request timeout")
            /\ pAnsweredBy' = "timer"
       ELSE UNCHANGED <<pPc, pResponse, pAnsweredBy>>
    /\ UNCHANGED <<pElapsed, pHandler, pResult>>

\* The response has been sent; the next request.
PostReturn ==
    /\ pPc = "responded"
    /\ pPc' = "idle"
    /\ pElapsed' = 0
    /\ pTimer' = "unset"
    /\ pHandler' = "none"
    /\ pResult' = 0
    /\ pResponse' = 0
    /\ pAnsweredBy' = "none"

\* C16: a request is never unanswered after 30 seconds and every request is
\* answered; the answer of the timer is 504, a status no answer of
\* handleRequest has, and an answer given by handleRequest before the timer
\* fired is the one POST returns.
C16_DeadlineAnswersEveryRequest ==
    /\ [](pPc = "racing" => (pElapsed <= 30 /\ pTimer = "armed"))
    /\ [](pAnsweredBy = "timer" => (pResponse = 504 /\ pElapsed = 30))
    /\ [](pAnsweredBy = "handler" => (pResponse = pResult /\ pResponse # 504))
    /\ [](504 \notin HandlerStatuses)
    /\ (pPc = "racing") ~> (pPc = "responded")
\* handleRequest was still pending after 30 seconds and the timer answered.
C16_Witness ==
    /\ pPc = "responded"
    /\ pAnsweredBy = "timer"
    /\ pHandler = "pending"
    /\ pElapsed = REQUEST_TIMEOUT
    /\ pResponse = STATUS_TIMEOUT

(***************************************************************************)
(* CacheService.hasRecentAnalysis                                          *)
(***************************************************************************)
\* How a select ... .single() ends: "ok" (the row, or the error of no row),
\* "error" (the store returns an error), "throw" (the call rejects).
SelectOutcomes == {"ok", "error", "throw"}
SingleSelect(table, cafeId, outcome) ==
    IF outcome = "ok" /\ table[cafeId] # NoRow
    THEN [error |-> FALSE, data |-> table[cafeId]]
    ELSE [error |-> TRUE, data |-> Null]

\* Mutation of BothRecent: one recent timestamp is enough.
BothRecent_Either(vibesAge, amenitiesAge) ==
    vibesAge <= ANALYSIS_CACHE_DURATION \/ amenitiesAge <= ANALYSIS_CACHE_DURATION
\* vibesAge <= ANALYSIS_CACHE_DURATION && amenitiesAge <= ANALYSIS_CACHE_DURATION
BothRecent(vibesAge, amenitiesAge) ==
    vibesAge <= ANALYSIS_CACHE_DURATION /\ amenitiesAge <= ANALYSIS_CACHE_DURATION

\* The body of the try of hasRecentAnalysis, once both selects have returned.
HasRecentAnalysis(vibesResult, amenitiesResult, t) ==
    IF vibesResult.error \/ vibesResult.data = Null
          \/ amenitiesResult.error \/ amenitiesResult.data = Null
    THEN FALSE
    ELSE BothRecent(t - vibesResult.data.last_analyzed,
                    t - amenitiesResult.data.last_analyzed)

RecentInit ==
    /\ rPc = "idle"
    /\ rCafe = "c1"
    /\ rQueries = <<>>
    /\ rResult = FALSE
    /\ rRaised = FALSE

\* hasRecentAnalysis(cafeId): the two selects of Promise.all, then the
\* comparison; a rejected select is caught and answered false.
HasRecentAnalysisCall(cafeId, vibesOutcome, amenitiesOutcome) ==
    /\ rPc = "idle"
    /\ rPc' = "done"
    /\ rCafe' = cafeId
    /\ rQueries' = <<vibesOutcome, amenitiesOutcome>>
    /\ rRaised' = FALSE
    /\ rResult' =
          IF "throw" \in {vibesOutcome, amenitiesOutcome} THEN FALSE
          ELSE HasRecentAnalysis(SingleSelect(cafe_vibes, cafeId, vibesOutcome),
                                 SingleSelect(cafe_amenities, cafeId, amenitiesOutcome),
                                 now)

\* The caller has the result.
RecentReturn ==
    /\ rPc = "done"
    /\ rPc' = "idle"
    /\ rCafe' = "c1"
    /\ rQueries' = <<>>
    /\ rResult' = FALSE
    /\ rRaised' = FALSE

\* The times of the last analysis that the tables hold when the recency is
\* asked at CheckTime: a day ago, exactly 7 days ago, 1 ms more than 7 days ago.
CheckTime == 2 * ONE_WEEK
AnalysisTimes == {CheckTime - ONE_DAY, CheckTime - ONE_WEEK, CheckTime - ONE_WEEK - 1}
StoredRows ==
    {NoRow} \cup { ScoreRow(HighConfidenceVibes(BaseAnalysis), t) : t \in AnalysisTimes }

\* Tables with any combination of missing, recent and old records.
RecencyTablesInit ==
    /\ now = CheckTime
    /\ ticks = 0
    /\ memCache = [c \in Cafes |-> NoEntry]
    /\ cafe_vibes \in [Cafes -> StoredRows]
    /\ cafe_amenities \in [Cafes -> StoredRows]
    /\ aPc = "idle"
    /\ aCafe = "c1"
    /\ aReviews = NoReviews
    /\ attempt = 1
    /\ pending = Null
    /\ aResult = Null
    /\ aRaised = FALSE
    /\ fetchLog = <<>>
    /\ saveLog = <<>>
    /\ vibesBefore = [c \in Cafes |-> NoRow]
    /\ amenBefore = [c \in Cafes |-> NoRow]
    /\ memBefore = [c \in Cafes |-> NoEntry]

RowAge(row) == now - row.last_analyzed
\* Both records of the cafe exist, are at most 7 days old, and both selects
\* of the call worked.
BothFoundRecent ==
    /\ rQueries = <<"ok", "ok">>
    /\ cafe_vibes[rCafe] # NoRow
    /\ cafe_amenities[rCafe] # NoRow
    /\ RowAge(cafe_vibes[rCafe]) <= 7 * ONE_DAY
    /\ RowAge(cafe_amenities[rCafe]) <= 7 * ONE_DAY

\* C20: hasRecentAnalysis returns true exactly when both timestamps were
\* found and both are at most 7 days old; with a missing or older timestamp
\* or a failed lookup it returns false; it never throws.
C20_RecentOnlyWhenBothWithinWeek ==
    rPc = "done" =>
        /\ ~rRaised
        /\ rResult <=> BothFoundRecent
\* True is returned for records that are exactly 7 days old.
C20_Witness ==
    /\ rPc = "done"
    /\ rResult
    /\ RowAge(cafe_vibes[rCafe]) = 7 * ONE_DAY
    /\ RowAge(cafe_amenities[rCafe]) = ONE_DAY

(***************************************************************************)
(* RecommendationService.getRecommendations called on its own              *)
(* (src/lib/services/analysis.ts, second half)                             *)
(***************************************************************************)
\* The largest number of cafes find_cafes_v2 finds within the radius.
MaxRows == 22

\* The cafes of the search area with their joined scores.  Cafes 2k-1 and 2k
\* are at the same distance; the stored confidences are above the thresholds
\* of saveAnalysisToDatabase.
RowDistance(i) == 500 * ((i + 1) \div 2)
RowVibes(i) ==
    CASE i % 6 \in {1, 2, 3} -> [k \in {"cozy"} |-> 600]
      [] i % 6 = 4 -> [k \in {"quiet"} |-> 900]
      [] i % 6 = 5 -> [k \in {"cozy"} |-> 900]
      [] OTHER -> EmptyScores
RowAmenities(i) ==
    CASE i % 6 \in {1, 2} -> [k \in {"wifi"} |-> 600]
      [] i % 6 = 3 -> [k \in {"wifi"} |-> 700]
      [] i % 6 = 4 -> [k \in {"wifi", "parking"} |-> IF k = "wifi" THEN 800 ELSE 600]
      [] i % 6 = 5 -> [k \in {"wifi", "parking"} |-> 900]
      [] OTHER -> EmptyScores
RowPrice(i) ==
    CASE i % 6 \in {1, 2, 3} -> JsString("$")
      [] i % 6 = 4 -> JsString("$$")
      [] i % 6 = 5 -> JsString("$$$")
      [] OTHER -> Null
Row(i) ==
    [id |-> i, distance |-> RowDistance(i), vibe_scores |-> RowVibes(i),
     amenity_scores |-> RowAmenities(i), price_level |-> RowPrice(i)]

\* ORDER BY nc.distance leaves the order of two cafes at the same distance
\* open: either of them can come first.
OrderKey(i, flip) == IF ~flip THEN i ELSE IF i % 2 = 1 THEN i + 1 ELSE i - 1
RECURSIVE ByDistance(_, _)
ByDistance(ids, flip) ==
    IF ids = {} THEN <<>>
    ELSE LET i == CHOOSE x \in ids : \A y \in ids : OrderKey(x, flip) <= OrderKey(y, flip)
         IN  <<Row(i)>> \o ByDistance(ids \ {i}, flip)
RankTables ==
    { ByDistance(ids, flip) :
        ids \in (SUBSET (1..6)) \cup {1..7, 1..(MaxRows - 1), 1..MaxRows},
        flip \in BOOLEAN }

\* The requests and limits of the callers.
RankRequests ==
    { [mood |-> m, requirements |-> r, priceRange |-> p] :
        m \in {"cozy", "lively"},
        r \in {Undefined, JsArray(<<"wifi">>), JsArray(<<"wifi", "parking">>)},
        p \in {Undefined, JsString("$")} }
RankLimits == {5, 20, 25}

\* find_cafes_v2: the price filter, the order by distance, LIMIT page_size.
PriceFilter(rows, priceRange) ==
    IF ~Truthy(priceRange) THEN rows
    ELSE SelectSeq(rows, LAMBDA r : r.price_level = priceRange)
FindCafes(table, request, limit) == FirstRows(PriceFilter(table, request.priceRange), limit)

\* cafes.map(...): every row with its _score; the factors are the ones
\* calculateScore logs.
ScoreRows(rows, request) ==
    [i \in 1..Len(rows) |->
        LET requirements == RequirementsOrDefault(request.requirements)
        IN  [id |-> rows[i].id,
             distance |-> rows[i].distance,
             vibe |-> TotalVibeScore(rows[i].vibe_scores, request.mood),
             amenity |-> AmenityScore(rows[i].amenity_scores, requirements),
             score |-> CalculateScore(rows[i], request.mood, requirements,
                                      rows[i].distance, request.priceRange)]]

\* Array.prototype.slice(from, to)
Slice(rows, from, to) ==
    LET end == IF Len(rows) < to THEN Len(rows) ELSE to
    IN  IF from >= end THEN <<>> ELSE SubSeq(rows, from + 1, end)

\* Mutation of SplitRanked: the pool starts one entry early.
SplitRanked_Overlap(sortedCafes) ==
    [recommendations |-> Slice(sortedCafes, 0, 5), otherCafes |-> Slice(sortedCafes, 4, 20)]
\* recommendations = sortedCafes.slice(0, 5), otherCafes = sortedCafes.slice(5, 20)
SplitRanked(sortedCafes) ==
    [recommendations |-> Slice(sortedCafes, 0, 5), otherCafes |-> Slice(sortedCafes, 5, 20)]

NoResults == [results |-> FALSE]

\* getRecommendations(lat, lng, request, limit) up to the await of the rpc.
RankCall(request, limit) ==
    /\ gPc = "idle"
    /\ gPc' = "query"
    /\ gRequest' = request
    /\ gLimit' = limit
    /\ gResult' = NoResults
    /\ gRaised' = "none"
    /\ UNCHANGED gTable

\* The rpc has answered: an error and an empty result are thrown (and
\* rethrown by the catch); otherwise the rows are scored, sorted and split.
RankQueryAnswer(ok) ==
    /\ gPc = "query"
    /\ gPc' = "done"
    /\ LET found == FindCafes(gTable, gRequest, gLimit)
       IN  IF ~ok
           THEN gRaised' = "rpc error" /\ UNCHANGED gResult
           ELSE IF Len(found) = 0
           THEN gRaised' = "No cafes found in this location" /\ UNCHANGED gResult
           ELSE /\ gResult' = SplitRanked(SortByScore(ScoreRows(found, gRequest)))
                /\ UNCHANGED gRaised
    /\ UNCHANGED <<gTable, gRequest, gLimit>>

\* The caller has the result.
RankReturn ==
    /\ gPc = "done"
    /\ gPc' = "idle"
    /\ gRequest' = NoRequest
    /\ gLimit' = 0
    /\ gResult' = NoResults
    /\ gRaised' = "none"
    /\ UNCHANGED gTable

\* No direct call is running.
RankIdle ==
    /\ gPc = "idle"
    /\ gRequest = NoRequest
    /\ gLimit = 0
    /\ gResult = NoResults
    /\ gRaised = "none"
RankInit == RankIdle /\ gTable = <<>> /\ prevRead = NoOp
\* The search area holds any of the tables.
RankTablesInit == RankIdle /\ gTable \in RankTables /\ prevRead = NoOp

(***************************************************************************)
(* The location cache for searches a few metres apart (checked under       *)
(* SpecNearby)                                                             *)
(***************************************************************************)
\* Geocoded coordinates in units of 0.00001 degrees: the first two are about
\* three metres apart, the third is another place.
NearCoordinates ==
    { [lat |-> 4760621, lng |-> -12233207],
      [lat |-> 4760624, lng |-> -12233211],
      [lat |-> 4760660, lng |-> -12233207] }
\* The arguments handleRequest looks the cache up with, and the same for a
\* write under that key.
NearArgs ==
    { Args(JsDecimal(c.lat), JsDecimal(c.lng), JsNumber(SEARCH_RADIUS)) : c \in NearCoordinates }
NearIdLists == { JsArray(<<"u1", "u2">>), JsArray(<<"u2">>) }

\* Math.round(x * 10000) / 10000 on a value in units of 0.00001, in units of
\* 0.0001.
RoundTo4(e5) == (e5 + 5) \div 10
\* The two searches are the same after rounding the coordinates to 4 decimals.
SameRoundedSearch(a, b) ==
    /\ RoundTo4(a.searchLocation.e5) = RoundTo4(b.searchLocation.e5)
    /\ RoundTo4(a.priceRange.e5) = RoundTo4(b.priceRange.e5)
    /\ a.radius = b.radius

\* The call returns to its caller; a read is remembered with what its select
\* of location_cache saw.
NearbyReturn ==
    /\ CacheReturn
    /\ prevRead' = IF cOp.op = "get" THEN [op |-> "get", key |-> cOp.key, seen |-> cSeen]
                   ELSE NoOp

\* C26 (as claimed): the key depends on the coordinates rounded to 4 decimals,
\* the radius and the price only: a read whose search equals, after rounding,
\* the search of the last successful write uses the key of that write and
\* returns the ids written.
C26_RoundedCoordinatesShareKey ==
    ( /\ cPc = "done"
      /\ cOp.op = "get"
      /\ cSeen # "error"
      /\ lastPut # NoPut
      /\ SameRoundedSearch(cOp.args, lastPut.args) ) =>
        /\ cOp.key = lastPut.key
        /\ cResult = lastPut.cafeIds

\* C27 (as claimed): a read that finds the entry in location_cache (the
\* durable tier) backfills a fast tier, so the next read of that key is served
\* from there: it returns the ids without a select of location_cache.
C27_ReadAfterHitServedByFastTier ==
    ( /\ cPc = "done"
      /\ cOp.op = "get"
      /\ prevRead = [op |-> "get", key |-> cOp.key, seen |-> "fresh"] ) =>
        /\ cSeen = "none"
        /\ cResult = location_cache[cOp.key].cafe_ids

(***************************************************************************)
(* POST with the analyses of its handleRequest (checked under SpecDeadline)*)
(***************************************************************************)
\* The answers of the provider in the requests of this specification.
DeadlineAnswers == {HttpError(STATUS_RATE_LIMIT), HttpError(500), OkObject(BaseAnalysis)}
DeadlineReviews == {[count |-> 2, totalText |-> 68]}

\* Step 5 of the pending handleRequest calls analyzeReviews for a cafe of a
\* batch.  Nothing in handleRequest or analyzeReviews reads the timer of POST.
HandlerAnalyzes(cafeId, reviews) == pHandler = "pending" /\ AnalyzeStart(cafeId, reviews)
\* handleRequest resolves once no analyzeReviews call of it is running.
HandlerResolvesAfterAnalysis(status) == aPc = "idle" /\ HandlerResolves(status)
\* The response has been sent and the promise of handleRequest has ended.
DeadlineReturn == pHandler = "resolved" /\ PostReturn

\* C30 (as claimed): once the 30-second timer of a request has fired, no
\* text-scoring attempt is started for that request: no retry and no call for
\* another cafe.
C30_NoAttemptAfterDeadline ==
    [][pTimer = "fired" => ~(aPc # "fetch" /\ aPc' = "fetch")]_vars

\* The score calculateScore gives the ranked cafe r when it is handed the
\* price tier of the request.
ScoreWithPrice(r, body) ==
    CalculateScore([vibe_scores |-> JoinedScores(cafe_vibes, r.id),
                    amenity_scores |-> JoinedScores(cafe_amenities, r.id),
                    price_level |-> PriceLevelOf(r.id)],
                   body.mood.s, RequirementsOrDefault(body.requirements),
                   DistanceOf(r.id), body.priceRange)

\* C32 (as claimed): when the request carries a priceRange, the scoring stage
\* is given that priceRange: the score of every ranked cafe is the score
\* calculateScore gives with the requested tier, so a cafe of the requested
\* tier has price factor 1.0 and a cafe two tiers away a lower one.
C32_PriceRangeReachesScoring ==
    (hRanked # NoRanking /\ Truthy(hReq.body.priceRange)) =>
        \A i \in 1..Len(hRanked.recommendations) :
            hRanked.recommendations[i].score =
                ScoreWithPrice(hRanked.recommendations[i], hReq.body)

(***************************************************************************)
(* Two requests on one search key (checked under SpecRace): while the      *)
(* getLocationCache of one request waits between its select and the delete *)
(* of invalidateLocationCache, the cacheLocationResults of another request *)
(* reaches the table.  The upsert is one statement of the database.        *)
(***************************************************************************)
ConcurrentCacheLocationResults(args, cafeIds) ==
    /\ cPc = "invalidate"
    /\ AcceptsCafeIds(cafeIds)
    /\ location_cache' =
          Upsert(location_cache, KeyOf(args), [cafe_ids |-> cafeIds, last_updated |-> now])
    /\ lastPut' = [args |-> args, key |-> KeyOf(args), cafeIds |-> cafeIds, time |-> now]
    /\ everPut' = everPut \cup {args}
    /\ evicted' = evicted \ {KeyOf(args)}
    /\ UNCHANGED <<cPc, cOp, cSeen, cDel, cResult, cRaised, cacheBefore>>

\* The step taken is the delete of the expiry handling of getLocationCache.
ExpiryDelete == cPc = "invalidate" /\ cOp.op = "get" /\ cPc' = "done"

\* C36 (as claimed): the expiry handling of getLocationCache (read the entry,
\* find it older than 24 hours, delete by key) never removes an entry that
\* another request wrote after the stale read: an entry that is fresh when
\* the delete runs is still stored after it.
C36_ExpiryKeepsFreshEntry ==
    [][ExpiryDelete =>
          \A k \in DOMAIN location_cache :
              ~IsStale(location_cache[k], now) =>
                  /\ k \in DOMAIN location_cache'
                  /\ location_cache'[k] = location_cache[k]]_vars

(***************************************************************************)
(* PlacesService.retryableRequest (src/lib/services/places.ts): the fetch  *)
(* of a Google endpoint, repeated after a 429 and after a network error.   *)
(***************************************************************************)
MAX_RETRIES == 3

\* No retryableRequest call is running.
PlacesInit ==
    /\ qPc = "idle"
    /\ qUrl = "none"
    /\ qAttempt = 0
    /\ lastError = "none"
    /\ qLog = <<>>
    /\ qResult = Null
    /\ qRaised = "none"

\* What a fetch gives: a response with a status, or a rejection.
PlacesResponse(status) == [kind |-> "response", status |-> status]
FetchRejected == [kind |-> "network"]
FetchOutcomes ==
    { PlacesResponse(st) :
        st \in {STATUS_OK, STATUS_NOT_FOUND, STATUS_RATE_LIMIT, STATUS_SERVER_ERROR} }
        \cup {FetchRejected}
\* The callers: geocodeLocation, searchNearbyCafes, getPlaceDetails.
PlacesUrls == {"geocode", "nearbysearch", "details"}

\* Mutation of LoopContinues: one more pass.
LoopContinues_OneMore(att) == att < MAX_RETRIES + 1
\* for (...; attempt < this.MAX_RETRIES; attempt++)
LoopContinues(att) == att < MAX_RETRIES

\* The loop is left without a return: throw lastError || new Error(...).
ThrowAfterLoop(err) ==
    /\ qPc' = "done"
    /\ qRaised' = IF err # "none" THEN err ELSE "Request failed after retries"
    /\ qResult' = Null

\* attempt++ and the test of the loop.
NextAttempt(err) ==
    /\ qAttempt' = qAttempt + 1
    /\ IF LoopContinues(qAttempt + 1)
       THEN qPc' = "fetch" /\ UNCHANGED <<qResult, qRaised>>
       ELSE ThrowAfterLoop(err)

RetryableRequestCall(url) ==
    /\ qPc = "idle"
    /\ qUrl' = url
    /\ qAttempt' = 0
    /\ lastError' = "none"
    /\ qLog' = <<>>
    /\ qPc' = "fetch"
    /\ UNCHANGED <<qResult, qRaised>>

\* await fetch(url): a 429 waits and continues, another response is
\* returned, a rejection is kept in lastError and waits unless it was the
\* last attempt.
FetchSettles(outcome) ==
    /\ qPc = "fetch"
    /\ qLog' = Append(qLog, outcome)
    /\ IF outcome.kind = "response"
       THEN /\ lastError' = lastError
            /\ qAttempt' = qAttempt
            /\ IF outcome.status = STATUS_RATE_LIMIT
               THEN qPc' = "delay" /\ UNCHANGED <<qResult, qRaised>>
               ELSE qPc' = "done" /\ qResult' = outcome /\ qRaised' = "none"
       ELSE /\ lastError' = "fetch failed"
            /\ IF qAttempt < MAX_RETRIES - 1
               THEN qPc' = "delay" /\ UNCHANGED <<qAttempt, qResult, qRaised>>
               ELSE NextAttempt("fetch failed")
    /\ UNCHANGED qUrl

\* The RETRY_DELAY timer has fired: continue, or the end of the catch block.
PlacesDelayElapsed ==
    /\ qPc = "delay"
    /\ NextAttempt(lastError)
    /\ UNCHANGED <<qUrl, lastError, qLog>>

\* The caller has the response or the error.
PlacesReturn ==
    /\ qPc = "done"
    /\ qPc' = "idle"
    /\ qUrl' = "none"
    /\ qAttempt' = 0
    /\ lastError' = "none"
    /\ qLog' = <<>>
    /\ qResult' = Null
    /\ qRaised' = "none"

\* The answer made the loop go on: a 429 or a rejection.
Retried(outcome) ==
    outcome.kind = "network" \/ outcome.status = STATUS_RATE_LIMIT

\* C39: retryableRequest ends after at most 3 fetches whatever the provider
\* answers: a response whose status is not 429 is the last fetch and is
\* returned; a thrown error follows 3 fetches that were all rate-limited or
\* rejected; and a running call always reaches its end.
C39_EndsWithinThreeAttempts ==
    /\ [](/\ Len(qLog) <= MAX_RETRIES
          /\ \A i \in 1..Len(qLog) :
                ~Retried(qLog[i]) =>
                    (i = Len(qLog) /\ qPc = "done" /\ qRaised = "none"
                        /\ qResult = qLog[i])
          /\ (qPc = "done" /\ qRaised # "none") =>
                (Len(qLog) = MAX_RETRIES /\ \A i \in 1..Len(qLog) : Retried(qLog[i]))
          /\ qPc = "fetch" => Len(qLog) < MAX_RETRIES)
    /\ (qPc = "fetch" ~> qPc = "done")
\* A 429, a network error and a 429: the call has thrown after the third fetch.
C39_Witness ==
    /\ qPc = "done"
    /\ qRaised = "fetch failed"
    /\ qLog = <<PlacesResponse(STATUS_RATE_LIMIT), FetchRejected,
                PlacesResponse(STATUS_RATE_LIMIT)>>

(***************************************************************************)
(* Specifications                                                          *)
(***************************************************************************)
InitAnalysis == AnalysisInit /\ CacheInit /\ RequestInit /\ ExtraInit /\ PostInit /\ RecentInit /\ RankInit /\ PlacesInit
NextAnalysis ==
    \/ (\E c \in Cafes, r \in ReviewShapes : AnalyzeStart(c, r)) /\ UNCHANGED <<cvars, hvars, xvars>>
    \/ (\E ans \in ProviderAnswers : ProviderAnswer(ans)) /\ UNCHANGED <<cvars, hvars, xvars>>
    \/ RetryDelayElapsed /\ UNCHANGED <<cvars, hvars, xvars>>
    \/ (\E ok \in BOOLEAN : SaveVibes(ok)) /\ UNCHANGED <<cvars, hvars, xvars>>
    \/ (\E ok \in BOOLEAN : SaveAmenities(ok)) /\ UNCHANGED <<cvars, hvars, xvars>>
    \/ AnalyzeReturn /\ UNCHANGED <<cvars, hvars, xvars>>
    \/ (\E d \in TickSteps : Tick(d)) /\ UNCHANGED <<cvars, hvars, xvars>>
    \/ Restart /\ UNCHANGED <<cvars, hvars, xvars>>
SpecAnalysis == InitAnalysis /\ [][NextAnalysis]_vars

\* The clock and the tables of the analysis do not move in the cache and
\* request specifications, except for the clock between calls.
AnalysisIdle ==
    UNCHANGED <<memCache, cafe_vibes, cafe_amenities, aPc, aCafe, aReviews, attempt, pending,
                aResult, aRaised, fetchLog, vibesBefore, amenBefore, memBefore,
                saveLog>>
ClockStill == UNCHANGED <<now, ticks>>
\* Steps 5 to 8 of the handler are not part of the cache and request
\* specifications.
OthersIdle == AnalysisIdle /\ UNCHANGED xvars

InitCache == AnalysisInit /\ CacheInit /\ RequestInit /\ ExtraInit /\ PostInit /\ RecentInit /\ RankInit /\ PlacesInit
NextCache ==
    \/ (\E a \in CacheArgs, ok \in BOOLEAN : GetLocationCacheCall(a, ok))
           /\ OthersIdle /\ ClockStill /\ UNCHANGED hvars
    \/ (\E k \in KnownKeys : InvalidateCall(k))
           /\ OthersIdle /\ ClockStill /\ UNCHANGED hvars
    \/ (\E ok \in BOOLEAN : InvalidateLocationCache(ok))
           /\ OthersIdle /\ ClockStill /\ UNCHANGED hvars
    \/ (\E a \in CacheArgs, ids \in IdLists, ok \in BOOLEAN :
            CacheLocationResultsCall(a, ids, ok))
           /\ OthersIdle /\ ClockStill /\ UNCHANGED hvars
    \/ CacheReturn /\ OthersIdle /\ ClockStill /\ UNCHANGED hvars
    \/ (\E d \in TickSteps : cPc = "idle" /\ Tick(d)) /\ UNCHANGED <<cvars, hvars, xvars>>
SpecCache == InitCache /\ [][NextCache]_vars

InitRequest == AnalysisInit /\ CacheInit /\ RequestInit /\ ExtraInit /\ PostInit /\ RecentInit /\ RankInit /\ PlacesInit
NextRequest ==
    \/ (\E b \in Bodies, setupOk \in BOOLEAN, geo \in Coordinates \cup {NoCoordinates} :
            RequestStart(b, setupOk, geo))
           /\ OthersIdle /\ ClockStill /\ UNCHANGED cvars
    \/ (\E ok \in BOOLEAN : Lookup(ok)) /\ OthersIdle /\ ClockStill
    \/ (\E ok \in BOOLEAN : InvalidateLocationCache(ok))
           /\ OthersIdle /\ ClockStill /\ UNCHANGED hvars
    \/ LookupDone /\ OthersIdle /\ ClockStill
    \/ (\E ok \in BOOLEAN : LoadCached(ok)) /\ OthersIdle /\ ClockStill /\ UNCHANGED cvars
    \/ (\E f \in SearchResults, s \in SUBSET Places, ok \in BOOLEAN : Search(f, s, ok))
           /\ OthersIdle /\ ClockStill /\ UNCHANGED cvars
    \/ (\E ok \in BOOLEAN : UpsertCafes(ok)) /\ OthersIdle /\ ClockStill /\ UNCHANGED cvars
    \/ (\E ok \in BOOLEAN : ReadBack(ok)) /\ OthersIdle /\ ClockStill /\ UNCHANGED cvars
    \/ (\E ok \in BOOLEAN : CacheWrite(ok)) /\ OthersIdle /\ ClockStill
    \/ CacheWriteDone /\ OthersIdle /\ ClockStill
    \/ (\E s \in FinishStatuses : Finish(s)) /\ OthersIdle /\ ClockStill /\ UNCHANGED cvars
    \/ RequestReturn /\ OthersIdle /\ ClockStill /\ UNCHANGED cvars
    \/ (\E ids \in DirectIdLists, ok \in BOOLEAN :
            hPc = "idle" /\ CacheLocationResultsCall(DirectPutArgs, ids, ok))
           /\ OthersIdle /\ ClockStill /\ UNCHANGED hvars
    \/ (hPc = "idle" /\ CacheReturn) /\ OthersIdle /\ ClockStill /\ UNCHANGED hvars
    \/ (\E d \in TickSteps : hPc = "idle" /\ cPc = "idle" /\ Tick(d))
           /\ UNCHANGED <<cvars, hvars, xvars>>
SpecRequest == InitRequest /\ [][NextRequest]_vars

(***************************************************************************)
(* Claims about steps 5 to 8 of handleRequest (checked under               *)
(* SpecRecommend, where every request has passed validation and geocoding  *)
(* and has found at least one cafe)                                        *)
(***************************************************************************)
\* C15 (as claimed): a request that found candidates ends with a ranked
\* result and the status of a stream, never with an error response.
C15_AcceptedRequestEndsRanked ==
    hPc = "responded" => (hResponse = STATUS_OK /\ hRanked # NoRanking)

\* The ranking of the request has started or is about to start.
ScoringStarted ==
    \/ hPc \in {"rank", "stream"}
    \/ hRanked # NoRanking
    \/ "recommend" \in SeqRange(hCalls)
SettledIds == { o[1] : o \in hOutcomes }

\* C17: when the ranking starts, no analyzeReviews call of the request is in
\* flight and every cafe that was put on the list to analyse has had its
\* call end (by a return or by a rejection).
C17_ScoringAfterAnalysis ==
    ScoringStarted =>
        /\ hInFlight = {}
        /\ SeqRange(hToAnalyze) \subseteq SettledIds
\* A request with two batches of analyses has been ranked.
C17_Witness ==
    /\ hRanked # NoRanking
    /\ Len(hToAnalyze) > BATCH_SIZE
    /\ SeqRange(hToAnalyze) = SettledIds

\* The analysis of the cafe ended in this request without storing anything.
AnalysisFailed(id) == \E o \in {"null", "throw"} : <<id, o>> \in hOutcomes
RankedAs(id, vibe, amenity) ==
    \E i \in 1..Len(hRanked.recommendations) :
        /\ hRanked.recommendations[i].id = id
        /\ hRanked.recommendations[i].vibe = vibe
        /\ hRanked.recommendations[i].amenity = amenity

RecentAnalysis(id) ==
    /\ cafe_vibes[id] # NoRow
    /\ cafe_amenities[id] # NoRow
    /\ now - cafe_vibes[id].last_analyzed <= 7 * ONE_DAY
    /\ now - cafe_amenities[id].last_analyzed <= 7 * ONE_DAY
\* The loop that selects the cafes to analyse has ended and no analysis of
\* the request has started.
SelectionDone ==
    \/ hPc = "batch" /\ hBatch = 1
    \/ hPc = "rank" /\ hToAnalyze = <<>>

\* C19 (as claimed): the cafes sent to analyzeReviews are exactly the
\* candidates whose analysis is not recent.
C19_StaleAnalysisIsRefreshed ==
    SelectionDone =>
        \A i \in 1..Len(hCafes) :
            hCafes[i].id \in SeqRange(hToAnalyze) <=> ~RecentAnalysis(hCafes[i].id)

\* The positions of cafesToAnalyze that make up the batch at hBatch.
BatchPositions ==
    { k \in 1..Len(hToAnalyze) : k >= hBatch /\ k < hBatch + BATCH_SIZE }

\* C33: the cafes to analyse are taken in order in consecutive batches of at
\* most 3, every one in exactly one batch: at most 3 analyzeReviews calls are
\* in flight, none is in flight when a batch starts, the cafes before the
\* batch have all settled, the cafes after it have not been started, and a
\* cafe of the batch is either in flight or settled.
C33_ConsecutiveBatchesOfThree ==
    /\ Cardinality(hInFlight) <= BATCH_SIZE
    /\ hPc = "batch" => hInFlight = {}
    /\ hPc \in {"batch", "settle"} =>
          \A k \in 1..Len(hToAnalyze) :
              /\ k < hBatch => hToAnalyze[k] \in SettledIds \ hInFlight
              /\ k >= hBatch + BATCH_SIZE => hToAnalyze[k] \notin SettledIds \cup hInFlight
    /\ hPc = "settle" =>
          /\ hInFlight \subseteq { hToAnalyze[k] : k \in BatchPositions }
          /\ \A k \in BatchPositions :
                (hToAnalyze[k] \in hInFlight) # (hToAnalyze[k] \in SettledIds)
\* The second batch of a list of four cafes is in flight: it holds the fourth
\* cafe alone, after the three cafes of the first batch have settled.
C33_Witness ==
    /\ hPc = "settle"
    /\ hToAnalyze = <<"u1", "u2", "u3", "u4">>
    /\ hBatch = 1 + BATCH_SIZE
    /\ hInFlight = {"u4"}
    /\ SettledIds = {"u1", "u2", "u3"}

\* The analysis of the cafe ended in this request with a failure: a rejection,
\* null, or null after a partly stored result.
AnalysisNotSaved(id) == \E o \in {"partial", "null", "throw"} : <<id, o>> \in hOutcomes

\* C34: a failed analysis of one cafe does not abort its batch or the request:
\* the other calls of the batch stay in flight until they settle, every cafe
\* of the list has had its call when the scoring starts, and the request is
\* answered by the scoring or the streaming step, not by the analysis step.
C34_FailedAnalysisDoesNotAbort ==
    (\E id \in CandidateIds : AnalysisNotSaved(id)) =>
        /\ hPc = "settle" =>
              \A k \in BatchPositions : hToAnalyze[k] \in hInFlight \cup SettledIds
        /\ ScoringStarted => SeqRange(hToAnalyze) \subseteq SettledIds
        /\ hPc = "responded" => hRespondedAt \in {"recommend", "stream"}
\* The first cafe of the first batch was rejected; the other cafes of that
\* batch and the cafe of the second batch were analysed and stored, and the
\* request has been ranked.
C34_Witness ==
    /\ hRanked # NoRanking
    /\ hToAnalyze = <<"u1", "u2", "u3", "u4">>
    /\ <<"u1", "throw">> \in hOutcomes
    /\ {<<"u2", "saved">>, <<"u3", "saved">>, <<"u4", "saved">>} \subseteq hOutcomes

\* The analyzeReviews service is summarised by its outcomes in the
\* specification of steps 5 to 8.
AnalysisCallIdle ==
    UNCHANGED <<memCache, aPc, aCafe, aReviews, attempt, pending, aResult, aRaised, fetchLog,
                vibesBefore, amenBefore, memBefore, saveLog>>

InitRecommend == RecommendInit /\ CacheInit /\ RequestInit /\ ExtraInit /\ PostInit /\ RecentInit /\ RankInit /\ PlacesInit
NextRecommend ==
    \/ (\E b \in RankBodies, ids \in CandidateLists : CandidatesFound(b, ids))
           /\ AnalysisCallIdle /\ ClockStill /\ UNCHANGED <<cvars, dvars, rvars, gvars, prevRead, qvars>>
    \/ CheckExisting /\ AnalysisCallIdle /\ ClockStill /\ UNCHANGED <<cvars, dvars, rvars, gvars, prevRead, qvars>>
    \/ StartBatch /\ AnalysisCallIdle /\ ClockStill /\ UNCHANGED <<cvars, dvars, rvars, gvars, prevRead, qvars>>
    \/ (\E id \in CandidateIds, o \in AnalysisOutcomes : AnalysisSettles(id, o))
           /\ AnalysisCallIdle /\ ClockStill /\ UNCHANGED <<cvars, dvars, rvars, gvars, prevRead, qvars>>
    \/ BatchDone /\ AnalysisCallIdle /\ ClockStill /\ UNCHANGED <<cvars, dvars, rvars, gvars, prevRead, qvars>>
    \/ (\E ok \in BOOLEAN : GetRecommendations(ok))
           /\ AnalysisCallIdle /\ ClockStill /\ UNCHANGED <<cvars, dvars, rvars, gvars, prevRead, qvars>>
    \/ (\E ok \in BOOLEAN : StreamAnswer(ok))
           /\ AnalysisCallIdle /\ ClockStill /\ UNCHANGED <<cvars, dvars, rvars, gvars, prevRead, qvars>>
    \/ RecommendReturn /\ AnalysisCallIdle /\ ClockStill /\ UNCHANGED <<cvars, dvars, rvars, gvars, prevRead, qvars>>
    \/ (\E d \in StaleSteps : hPc = "idle" /\ Tick(d)) /\ UNCHANGED <<cvars, hvars, xvars>>
SpecRecommend == InitRecommend /\ [][NextRecommend]_vars

\* POST alone: handleRequest is the promise it awaits.
InitPost == AnalysisInit /\ CacheInit /\ RequestInit /\ ExtraInit /\ PostInit /\ RecentInit /\ RankInit /\ PlacesInit
NextPost ==
    \/ PostStart /\ UNCHANGED <<avars, cvars, hvars, evars, rvars, gvars, prevRead, qvars>>
    \/ SecondPasses /\ UNCHANGED <<avars, cvars, hvars, evars, rvars, gvars, prevRead, qvars>>
    \/ (\E s \in HandlerStatuses : HandlerResolves(s))
           /\ UNCHANGED <<avars, cvars, hvars, evars, rvars, gvars, prevRead, qvars>>
    \/ TimerFires /\ UNCHANGED <<avars, cvars, hvars, evars, rvars, gvars, prevRead, qvars>>
    \/ PostReturn /\ UNCHANGED <<avars, cvars, hvars, evars, rvars, gvars, prevRead, qvars>>
\* Time passes and the timer of setTimeout fires when it is due.
SpecPost ==
    InitPost /\ [][NextPost]_vars
        /\ WF_vars(SecondPasses /\ UNCHANGED <<avars, cvars, hvars, evars, rvars, gvars, prevRead, qvars>>)
        /\ WF_vars(TimerFires /\ UNCHANGED <<avars, cvars, hvars, evars, rvars, gvars, prevRead, qvars>>)

\* hasRecentAnalysis applied to tables in every combination of records.
InitRecent ==
    RecencyTablesInit /\ CacheInit /\ RequestInit /\ ExtraInit /\ PostInit /\ RecentInit /\ RankInit /\ PlacesInit
NextRecent ==
    \/ (\E c \in Cafes, v \in SelectOutcomes, a \in SelectOutcomes :
            HasRecentAnalysisCall(c, v, a))
           /\ UNCHANGED <<avars, cvars, hvars, evars, dvars, gvars, prevRead, qvars>>
    \/ RecentReturn /\ UNCHANGED <<avars, cvars, hvars, evars, dvars, gvars, prevRead, qvars>>
SpecRecent == InitRecent /\ [][NextRecent]_vars

(***************************************************************************)
(* Claims about getRecommendations and calculateScore (checked under       *)
(* SpecRank)                                                               *)
(***************************************************************************)
\* The call has resolved with a ranking.
Resolved == gPc = "done" /\ gResult # NoResults
\* The ranked list: the recommendations followed by the other cafes.
RankedList == gResult.recommendations \o gResult.otherCafes
\* The rows the query handed to the scoring, in its order.
QueryRows == FindCafes(gTable, gRequest, gLimit)
PositionOf(rows, id) == CHOOSE i \in 1..Len(rows) : rows[i].id = id
\* Row a is ranked before row b by the claimed order.
RankedBefore(a, b) ==
    \/ a.score > b.score
    \/ a.score = b.score /\ a.distance < b.distance
    \/ /\ a.score = b.score
       /\ a.distance = b.distance
       /\ PositionOf(QueryRows, a.id) < PositionOf(QueryRows, b.id)

\* C22: the ranked list holds the candidates of the query (the best 20 when
\* there are more) in descending order of combined score; candidates with the
\* same score are in ascending order of distance, and candidates equal in
\* both are in the order of the query.  This order is total, so a table, a
\* request and a limit have one ranking only.
C22_RankedByScoreThenDistance ==
    Resolved =>
        /\ Len(RankedList) = (IF Len(QueryRows) < 20 THEN Len(QueryRows) ELSE 20)
        /\ \A i \in 1..Len(RankedList) :
              \E j \in 1..Len(QueryRows) : QueryRows[j].id = RankedList[i].id
        /\ \A i, j \in 1..Len(RankedList) :
              i < j => RankedBefore(RankedList[i], RankedList[j])
\* A ranking in which a farther cafe is ahead of a nearer one by its score,
\* two cafes have the same score at different distances, and two cafes have
\* the same score at the same distance.
C22_Witness ==
    /\ Resolved
    /\ \E i, j \in 1..Len(RankedList) :
          i < j /\ RankedList[i].distance > RankedList[j].distance
    /\ \E i, j \in 1..Len(RankedList) :
          /\ i < j
          /\ RankedList[i].score = RankedList[j].score
          /\ RankedList[i].distance < RankedList[j].distance
    /\ \E i, j \in 1..Len(RankedList) :
          /\ i < j
          /\ RankedList[i].score = RankedList[j].score
          /\ RankedList[i].distance = RankedList[j].distance
          /\ RankedList[i].id > RankedList[j].id

\* The sorted list getRecommendations splits.
SortedCafes == SortByScore(ScoreRows(QueryRows, gRequest))
ResultIds(rows) == { rows[i].id : i \in 1..Len(rows) }

\* C23: the recommendations are the first 5 entries of the sorted list (all
\* of them when there are fewer) and the other cafes are its entries 6 to 20;
\* no cafe is in both, together they are at most 20, and no other cafe has a
\* higher score than a recommendation.
C23_SplitTopFiveAndPool ==
    Resolved =>
        /\ gResult.recommendations =
              [i \in 1..(IF Len(SortedCafes) < 5 THEN Len(SortedCafes) ELSE 5) |->
                  SortedCafes[i]]
        /\ Len(gResult.otherCafes) =
              (IF Len(SortedCafes) <= 5 THEN 0
               ELSE IF Len(SortedCafes) < 20 THEN Len(SortedCafes) - 5 ELSE 15)
        /\ \A i \in 1..Len(gResult.otherCafes) : gResult.otherCafes[i] = SortedCafes[5 + i]
        /\ ResultIds(gResult.recommendations) \cap ResultIds(gResult.otherCafes) = {}
        /\ Len(gResult.recommendations) + Len(gResult.otherCafes) <= 20
        /\ \A i \in 1..Len(gResult.recommendations), j \in 1..Len(gResult.otherCafes) :
              gResult.otherCafes[j].score <= gResult.recommendations[i].score
\* A query that returned more than 20 cafes has been split in 5 and 15.
C23_Witness ==
    /\ Resolved
    /\ Len(QueryRows) > 20
    /\ Len(gResult.recommendations) = 5
    /\ Len(gResult.otherCafes) = 15

\* The row of the query a ranked row was scored from.
SourceRow(ranked) == QueryRows[PositionOf(QueryRows, ranked.id)]
\* The highest of the stored confidences of the keys.
MaxStored(scores, keys) ==
    CHOOSE v \in {scores[k] : k \in keys} : \A k \in keys : scores[k] <= v

\* C24 (as claimed): the vibe factor of a ranked cafe is the stored confidence
\* of the target mood when there is one; otherwise the highest stored
\* confidence among the complementary vibes times a factor between 0.7 and
\* 0.8; 0.3 when there is neither; and it is in [0,1].
C24_VibeFactorDirectMaxOrFloor ==
    Resolved =>
        \A i \in 1..Len(RankedList) :
            LET stored == SourceRow(RankedList[i]).vibe_scores
                complementary ==
                    { k \in SeqRange(COMPLEMENTARY_VIBES(gRequest.mood)) : k \in DOMAIN stored }
                vibe == RankedList[i].vibe
            IN  /\ vibe >= 0 /\ vibe <= 1000
                /\ IF gRequest.mood \in DOMAIN stored THEN vibe = stored[gRequest.mood]
                   ELSE IF complementary # {}
                        THEN /\ 7 * MaxStored(stored, complementary) <= 10 * vibe
                             /\ 10 * vibe <= 8 * MaxStored(stored, complementary)
                        ELSE vibe = BASE_VIBE_SCORE

\* C25 (as claimed): the amenity factor of a ranked cafe is the mean over the
\* required amenities of the stored confidence, with a default between 0.4
\* and 0.5 in the place of each amenity that has no record; 1 when nothing is
\* required.
C25_AmenityFactorMeanWithDefaults ==
    Resolved =>
        \A i \in 1..Len(RankedList) :
            LET stored == SourceRow(RankedList[i]).amenity_scores
                requirements == RequirementsOrDefault(gRequest.requirements)
                known == { j \in 1..Len(requirements) : requirements[j] \in DOMAIN stored }
                missing == Len(requirements) - Cardinality(known)
                sum == SumScores(stored, requirements)
                amenity == RankedList[i].amenity
            IN  IF Len(requirements) = 0 THEN amenity = FULL_SCORE
                ELSE /\ sum + 400 * missing <= amenity * Len(requirements)
                     /\ amenity * Len(requirements) <= sum + 500 * missing

\* C28 (as claimed): when the query answers without an error and with no
\* cafes, getRecommendations resolves with an empty ranking.
C28_NoCafesResolvesEmpty ==
    (gPc = "done" /\ gRaised # "rpc error" /\ Len(QueryRows) = 0) =>
        /\ gRaised = "none"
        /\ gResult = [recommendations |-> <<>>, otherCafes |-> <<>>]

\* getRecommendations applied to every table, request and limit.
InitRank ==
    AnalysisInit /\ CacheInit /\ RequestInit /\ ExtraInit /\ PostInit /\ RecentInit
        /\ RankTablesInit /\ PlacesInit
NextRank ==
    \/ (\E r \in RankRequests, l \in RankLimits : RankCall(r, l))
           /\ UNCHANGED <<avars, cvars, hvars, evars, dvars, rvars, prevRead, qvars>>
    \/ (\E ok \in BOOLEAN : RankQueryAnswer(ok))
           /\ UNCHANGED <<avars, cvars, hvars, evars, dvars, rvars, prevRead, qvars>>
    \/ RankReturn /\ UNCHANGED <<avars, cvars, hvars, evars, dvars, rvars, prevRead, qvars>>
SpecRank == InitRank /\ [][NextRank]_vars

\* The cache calls for searches a few metres apart; the clock stands still.
NearbyIdle == AnalysisIdle /\ UNCHANGED <<evars, dvars, rvars, gvars, qvars>>
InitNearby ==
    AnalysisInit /\ CacheInit /\ RequestInit /\ ExtraInit /\ PostInit /\ RecentInit
        /\ RankInit /\ PlacesInit
NextNearby ==
    \/ (\E a \in NearArgs, ok \in BOOLEAN : GetLocationCacheCall(a, ok))
           /\ NearbyIdle /\ ClockStill /\ UNCHANGED <<hvars, prevRead>>
    \/ (\E a \in NearArgs, ids \in NearIdLists, ok \in BOOLEAN :
            CacheLocationResultsCall(a, ids, ok))
           /\ NearbyIdle /\ ClockStill /\ UNCHANGED <<hvars, prevRead>>
    \/ NearbyReturn /\ NearbyIdle /\ ClockStill /\ UNCHANGED hvars
SpecNearby == InitNearby /\ [][NextNearby]_vars

\* POST, its timer and the analyzeReviews calls of its handleRequest.
InitDeadline ==
    AnalysisInit /\ CacheInit /\ RequestInit /\ ExtraInit /\ PostInit /\ RecentInit
        /\ RankInit /\ PlacesInit
DeadlineIdle == UNCHANGED <<avars, cvars, hvars, evars, rvars, gvars, prevRead, qvars>>
NextDeadline ==
    \/ PostStart /\ DeadlineIdle
    \/ SecondPasses /\ DeadlineIdle
    \/ TimerFires /\ DeadlineIdle
    \/ (\E s \in HandlerStatuses : HandlerResolvesAfterAnalysis(s)) /\ DeadlineIdle
    \/ DeadlineReturn /\ DeadlineIdle
    \/ (\E c \in Cafes, r \in DeadlineReviews : HandlerAnalyzes(c, r))
           /\ UNCHANGED <<cvars, hvars, xvars>>
    \/ (\E ans \in DeadlineAnswers : pHandler = "pending" /\ ProviderAnswer(ans))
           /\ UNCHANGED <<cvars, hvars, xvars>>
    \/ (pHandler = "pending" /\ RetryDelayElapsed) /\ UNCHANGED <<cvars, hvars, xvars>>
    \/ (\E ok \in BOOLEAN : pHandler = "pending" /\ SaveVibes(ok))
           /\ UNCHANGED <<cvars, hvars, xvars>>
    \/ (\E ok \in BOOLEAN : pHandler = "pending" /\ SaveAmenities(ok))
           /\ UNCHANGED <<cvars, hvars, xvars>>
    \/ (pHandler = "pending" /\ AnalyzeReturn) /\ UNCHANGED <<cvars, hvars, xvars>>
SpecDeadline == InitDeadline /\ [][NextDeadline]_vars

(***************************************************************************)
(* SpecRace: the calls of CacheService of one request, with the writes of  *)
(* a concurrent request.                                                   *)
(***************************************************************************)
RaceArgs == { Args(JsString("Seattle"), p, Undefined) : p \in {Undefined, JsString("$")} }

InitRace == InitCache
NextRace ==
    \/ (\E a \in RaceArgs, ok \in BOOLEAN : GetLocationCacheCall(a, ok))
           /\ OthersIdle /\ ClockStill /\ UNCHANGED hvars
    \/ (\E ok \in BOOLEAN : InvalidateLocationCache(ok))
           /\ OthersIdle /\ ClockStill /\ UNCHANGED hvars
    \/ (\E a \in RaceArgs, ids \in IdLists, ok \in BOOLEAN :
            CacheLocationResultsCall(a, ids, ok))
           /\ OthersIdle /\ ClockStill /\ UNCHANGED hvars
    \/ (\E a \in RaceArgs, ids \in IdLists : ConcurrentCacheLocationResults(a, ids))
           /\ OthersIdle /\ ClockStill /\ UNCHANGED hvars
    \/ CacheReturn /\ OthersIdle /\ ClockStill /\ UNCHANGED hvars
    \/ (\E d \in TickSteps : cPc = "idle" /\ Tick(d)) /\ UNCHANGED <<cvars, hvars, xvars>>
SpecRace == InitRace /\ [][NextRace]_vars

(***************************************************************************)
(* SpecPlaces: retryableRequest calls, one at a time.  Every fetch settles *)
(* and every timer fires.                                                  *)
(***************************************************************************)
PlacesFrame == UNCHANGED <<avars, cvars, hvars, evars, dvars, rvars, gvars, prevRead>>
InitPlaces == InitCache
NextPlaces ==
    \/ (\E url \in PlacesUrls : RetryableRequestCall(url)) /\ PlacesFrame
    \/ (\E outcome \in FetchOutcomes : FetchSettles(outcome)) /\ PlacesFrame
    \/ PlacesDelayElapsed /\ PlacesFrame
    \/ PlacesReturn /\ PlacesFrame
SpecPlaces ==
    /\ InitPlaces
    /\ [][NextPlaces]_vars
    /\ WF_vars((\E outcome \in FetchOutcomes : FetchSettles(outcome)) /\ PlacesFrame)
    /\ WF_vars(PlacesDelayElapsed /\ PlacesFrame)

====
